---------------------------- MODULE Spec2Model ----------------------------
(***************************************************************************)
(* Portfolio dashboard: quote fetcher (memoised per ticker for 300 s),     *)
(* metrics calculator and portfolio aggregator of FondoManager and         *)
(* AccionManager, over the store's list operation and the quote provider.  *)
(*                                                                         *)
(* Number representation (Python floats are modelled as exact decimals):   *)
(*   money in stored records and snapshots ... cents        (1/100)        *)
(*   quantities (cantidad, num_acciones) ..... hundredths   (1/100)        *)
(*   percentages ............................. hundredths of a percent     *)
(*   raw provider prices ..................... mills        (1/1000)       *)
(* round(x, 2) is Python's round-half-even on the exact value.             *)
(***************************************************************************)
EXTENDS Integers, Sequences, FiniteSets, TLC

VARIABLES
    tablas,     \* the store: tablas[k] is the list the store returns for table k
    provider,   \* what the quote provider answers now, per ticker
    cache,      \* st.cache_data storage of obtener_datos_mercado, per manager and ticker
    now,        \* the clock, in seconds
    run,        \* the result of the latest obtener_todos_*_con_metricas
    last,       \* the latest call of obtener_datos_mercado (observation)
    wnd,        \* per manager and ticker: the latest provider call (observation)
    ses,        \* per session: where its script thread is in a call of obtener_datos_mercado
    lock,       \* per manager and ticker: the holder of the cache's compute lock
    ui,         \* the latest refresh, save or delete of a page, or the latest
                \* call of a store operation (observation)
    serial,     \* the store: the last id each table assigned
    pantalla    \* the browser session: st.session_state, the messages of the
                \* latest click, the page main() rendered and the table built

vars == <<tablas, provider, cache, now, run, last, wnd, ses, lock, ui, serial, pantalla>>

-----------------------------------------------------------------------------
(* Bounds of the model *)

MaxPos == 2             \* longest list of positions the store returns
MaxTicks == 2           \* the clock advances at most this many times
TickSeconds == 150      \* seconds per clock advance

-----------------------------------------------------------------------------
(* Values *)

Kinds == {"fondos", "acciones"}

\* Python None where a number is expected (a null column, a missing JSON value)
NumNone == 0 - 10^9
\* float('inf'), float('-inf'), float('nan') in a percentage field
PosInf == 10^9
NegInf == 0 - (10^9 + 1)
NaN == 10^9 + 2

IsNum(x) == x # NumNone

\* Python None where a dict is expected
PyNone == [py |-> "None"]

\* dict.get(key, default)
Get(d, key, default) == IF key \in DOMAIN d THEN d[key] ELSE default

\* {**a, **b}
Merge(a, b) == [k \in (DOMAIN a) \cup (DOMAIN b) |-> IF k \in DOMAIN b THEN b[k] ELSE a[k]]

\* round(n/d, 0) for d > 0, ties to even
RoundHalfEven(n, d) ==
    LET q == n \div d
        r == n % d
    IN  IF 2 * r < d THEN q
        ELSE IF 2 * r > d THEN q + 1
        ELSE IF q % 2 = 0 THEN q ELSE q + 1

\* round(n/d, 0) for d # 0
RoundRatio(n, d) == IF d > 0 THEN RoundHalfEven(n, d) ELSE RoundHalfEven(0 - n, 0 - d)


-----------------------------------------------------------------------------
(* The quote provider (yfinance): one answer per ticker.                     *)
(*   info_ok = FALSE: the info lookup raises; info: the metadata mapping,    *)
(*   whose keys may be missing or hold None; hist_ok = FALSE: the history    *)
(*   request raises; hist: the closes of the current year, oldest first.     *)
(* Values of info are Python numbers, closes are numpy.float64.              *)

Respuesta(info_ok, info, hist_ok, hist) ==
    [info_ok |-> info_ok, info |-> info, hist_ok |-> hist_ok, hist |-> hist]

\* The slip of cutting the percentage after 2 decimals instead of rounding it
PctMutTrunca(x, d, is_np) ==
    IF d # 0
    THEN [ok |-> TRUE,
          v |-> LET a == ((IF x >= 0 THEN x ELSE 0 - x) * 10000)
                             \div (IF d > 0 THEN d ELSE 0 - d)
                IN  IF (x >= 0) = (d > 0) THEN a ELSE 0 - a]
    ELSE IF ~is_np THEN [ok |-> FALSE, v |-> 0]
    ELSE [ok |-> TRUE, v |-> IF x > 0 THEN PosInf ELSE IF x < 0 THEN NegInf ELSE NaN]

\* x / d * 100 rounded to 2 decimals, where x / d is a numpy division when
\* is_np and a Python division otherwise; ok = FALSE: ZeroDivisionError
Pct(x, d, is_np) ==
    IF d # 0 THEN [ok |-> TRUE, v |-> RoundRatio(x * 10000, d)]
    ELSE IF ~is_np THEN [ok |-> FALSE, v |-> 0]
    ELSE [ok |-> TRUE, v |-> IF x > 0 THEN PosInf ELSE IF x < 0 THEN NegInf ELSE NaN]

\* except Exception: return None.  A value with the field exc stands for an
\* exception leaving the function, which the code never lets happen.
CapturarMutPropaga(exc) == [py |-> "raise", exc |-> exc]

Capturar(exc) == PyNone

Propaga(v) == "exc" \in DOMAIN v

\* if historico.empty: return None
\* (the slip of going on with the metadata)
HistoricoVacioMutNunca(h) == FALSE

HistoricoVacio(h) == Len(h) = 0

\* precio_actual: regularMarketPrice, else currentPrice, else the last close
\* (0 for an empty history)
PrecioActual(info, h) ==
    Get(info, "regularMarketPrice",
        Get(info, "currentPrice", IF Len(h) > 0 THEN h[Len(h)] ELSE 0))

\* precio_actual is a numpy.float64 exactly when it came from the closes
ActualNp(info, h) ==
    "regularMarketPrice" \notin DOMAIN info /\ "currentPrice" \notin DOMAIN info /\ Len(h) > 0

\* The slip of preferring the closes to the provider's previous close
PrecioCierreAnteriorMutHistorico(info, h) ==
    IF Len(h) > 1 THEN h[Len(h) - 1]
    ELSE Get(info, "regularMarketPreviousClose", PrecioActual(info, h))

\* precio_cierre_anterior: the provider's previous close, else the
\* second-to-last close, else precio_actual
PrecioCierreAnterior(info, h) ==
    IF "regularMarketPreviousClose" \in DOMAIN info THEN info["regularMarketPreviousClose"]
    ELSE IF Len(h) > 1 THEN h[Len(h) - 1]
    ELSE PrecioActual(info, h)

CierreNp(info, h) ==
    "regularMarketPreviousClose" \notin DOMAIN info /\ (Len(h) > 1 \/ ActualNp(info, h))

\* precio_inicio_ano: the first close (precio_actual for an empty history)
PrecioInicioAno(h, precio_actual) == IF Len(h) > 0 THEN h[1] ELSE precio_actual

\* The returned dict, unless a division raised ZeroDivisionError
Emitir(kind, ticker, info, precio_actual, cambio_diario_eur, diario, ytd) ==
    IF ~diario.ok \/ ~ytd.ok THEN Capturar("ZeroDivisionError")
    ELSE IF kind = "acciones"
    THEN [nombre |-> Get(info, "longName", ticker),
          ticker |-> ticker,
          sector |-> Get(info, "sector", "No disponible"),
          valor_actual |-> RoundHalfEven(precio_actual, 10),
          cambio_diario_eur |-> RoundHalfEven(cambio_diario_eur, 10),
          cambio_diario_pct |-> diario.v,
          cambio_ytd_pct |-> ytd.v]
    ELSE [nombre |-> Get(info, "longName", ticker),
          ticker |-> ticker,
          valor_actual |-> RoundHalfEven(precio_actual, 10),
          cambio_diario_eur |-> RoundHalfEven(cambio_diario_eur, 10),
          cambio_diario_pct |-> diario.v,
          cambio_ytd_pct |-> ytd.v]

\* The changes; a price that is None raises TypeError.  is_np: the daily
\* division has a numpy operand; ytd_np: so has the year-to-date division.
CalcularCambios(kind, ticker, info, precio_actual, precio_cierre_anterior, precio_inicio_ano, is_np, ytd_np) ==
    IF ~IsNum(precio_actual) \/ ~IsNum(precio_cierre_anterior) THEN Capturar("TypeError")
    ELSE Emitir(kind, ticker, info, precio_actual,
                precio_actual - precio_cierre_anterior,
                Pct(precio_actual - precio_cierre_anterior, precio_cierre_anterior, is_np),
                Pct(precio_actual - precio_inicio_ano, precio_inicio_ano, ytd_np))

\* The body of obtener_datos_mercado (what runs on a cache miss): the snapshot,
\* or PyNone when the history is empty or anything raises.
obtener_datos_mercado_fn(kind, ticker, r) ==
    IF ~r.info_ok THEN Capturar("InfoError")
    ELSE IF ~r.hist_ok THEN Capturar("HistoryError")
    ELSE IF HistoricoVacio(r.hist) THEN PyNone
    ELSE CalcularCambios(kind, ticker, r.info,
                         PrecioActual(r.info, r.hist),
                         PrecioCierreAnterior(r.info, r.hist),
                         PrecioInicioAno(r.hist, PrecioActual(r.info, r.hist)),
                         ActualNp(r.info, r.hist) \/ CierreNp(r.info, r.hist),
                         Len(r.hist) > 0 \/ ActualNp(r.info, r.hist))

-----------------------------------------------------------------------------
(* st.cache_data(ttl=300) around obtener_datos_mercado: one entry per ticker *)
(* (_self is not part of the key), each manager's function has its own       *)
(* storage; any return value, None included, is stored with the time of the  *)
(* call; an entry is served while it is younger than ttl.                    *)

TTL == 300

NoEntry == [at |-> 0 - 1, val |-> PyNone]

\* The slip of an entry that never expires
CacheValidMutSinExpirar(e, t) == e.at >= 0

CacheValid(e, t) == e.at >= 0 /\ t < e.at + TTL

\* The slip of not storing a None result
CacheStoreMutSinNone(val, t) == IF val = PyNone THEN NoEntry ELSE [at |-> t, val |-> val]

\* The entry a miss stores
CacheStore(val, t) == [at |-> t, val |-> val]

\* A miss: the provider is asked and the answer stored (nothing is stored
\* when the function raises)
Miss(kind, ticker, c, val, t) ==
    [ret |-> val,
     cache |-> IF Propaga(val) THEN c ELSE [c EXCEPT ![kind][ticker] = CacheStore(val, t)],
     called |-> TRUE]

\* The undecorated function: every call asks the provider
obtener_datos_mercadoMutSinCache(kind, ticker, c, prov, t) ==
    Miss(kind, ticker, c, obtener_datos_mercado_fn(kind, ticker, prov[ticker]), t)

\* One call of the decorated obtener_datos_mercado: [ret, cache, called], where
\* called says whether the provider was asked.
obtener_datos_mercado(kind, ticker, c, prov, t) ==
    IF CacheValid(c[kind][ticker], t)
    THEN [ret |-> c[kind][ticker].val, cache |-> c, called |-> FALSE]
    ELSE Miss(kind, ticker, c, obtener_datos_mercado_fn(kind, ticker, prov[ticker]), t)

-----------------------------------------------------------------------------
(* Metrics calculator.  A stored record is a mapping from column name to     *)
(* value; a column may be missing, a number column may hold None.  The        *)
(* result is [out, err, cache, called]: the returned mapping, the exception   *)
(* the except clause caught ("" when none), the cache after the call and      *)
(* whether the provider was asked.                                            *)

\* ((valor_actual - compra) / compra * 100) if compra > 0 else 0, rounded;
\* ok = FALSE: ZeroDivisionError
GananciaPctMutSinGuarda(valor_actual, compra) == Pct(valor_actual - compra, compra, FALSE)

GananciaPct(valor_actual, compra) ==
    IF compra > 0 THEN Pct(valor_actual - compra, compra, FALSE) ELSE [ok |-> TRUE, v |-> 0]

\* The plausible slips of the derived amounts: the gain from the truncated
\* product, and the current total from the purchase price
ImportesMutTrunca(compra, cantidad, valor_actual) ==
    [ganancia_total_eur |-> ((valor_actual - compra) * cantidad) \div 100,
     total_invertido |-> RoundHalfEven(compra * cantidad, 100),
     valor_actual_total |-> RoundHalfEven(valor_actual * cantidad, 100)]

ImportesMutTotal(compra, cantidad, valor_actual) ==
    [ganancia_total_eur |-> RoundHalfEven((valor_actual - compra) * cantidad, 100),
     total_invertido |-> RoundHalfEven(compra * cantidad, 100),
     valor_actual_total |-> RoundHalfEven(compra * cantidad, 100)]

\* The slip of subtracting the other way round in the gain
ImportesMutSigno(compra, cantidad, valor_actual) ==
    [ganancia_total_eur |-> RoundHalfEven((compra - valor_actual) * cantidad, 100),
     total_invertido |-> RoundHalfEven(compra * cantidad, 100),
     valor_actual_total |-> RoundHalfEven(valor_actual * cantidad, 100)]

\* The three derived amounts, each rounded to 2 decimals
Importes(compra, cantidad, valor_actual) ==
    [ganancia_total_eur |-> RoundHalfEven((valor_actual - compra) * cantidad, 100),
     total_invertido |-> RoundHalfEven(compra * cantidad, 100),
     valor_actual_total |-> RoundHalfEven(valor_actual * cantidad, 100)]

\* The derived fields; err: the exception the arithmetic raised ("" when
\* none): TypeError when an operand is None
Derivadas(compra, cantidad, valor_actual) ==
    IF ~IsNum(valor_actual) \/ ~IsNum(compra) \/ ~IsNum(cantidad)
    THEN [err |-> "TypeError"]
    ELSE IF ~GananciaPct(valor_actual, compra).ok
    THEN [err |-> "ZeroDivisionError"]
    ELSE Merge(Importes(compra, cantidad, valor_actual),
               [err |-> "", ganancia_total_pct |-> GananciaPct(valor_actual, compra).v])

\* The slip of letting the stored columns win over the quote's
EnsamblarMutOrden(data, datos_mercado, m, f) ==
    IF m.err # ""
    THEN [out |-> data, err |-> m.err, cache |-> f.cache, called |-> f.called]
    ELSE [out |-> Merge(Merge(datos_mercado, data),
                        [ganancia_total_eur |-> m.ganancia_total_eur,
                         ganancia_total_pct |-> m.ganancia_total_pct,
                         total_invertido |-> m.total_invertido,
                         valor_actual_total |-> m.valor_actual_total]),
          err |-> "", cache |-> f.cache, called |-> f.called]

\* The slip of returning what was merged so far when the computation raised
EnsamblarMutParcial(data, datos_mercado, m, f) ==
    IF m.err # ""
    THEN [out |-> Merge(data, datos_mercado), err |-> m.err, cache |-> f.cache,
          called |-> f.called]
    ELSE [out |-> Merge(Merge(data, datos_mercado),
                        [ganancia_total_eur |-> m.ganancia_total_eur,
                         ganancia_total_pct |-> m.ganancia_total_pct,
                         total_invertido |-> m.total_invertido,
                         valor_actual_total |-> m.valor_actual_total]),
          err |-> "", cache |-> f.cache, called |-> f.called]

\* {**data, **datos_mercado, 'ganancia_total_eur': ..., ...}, or data itself
\* when the computation raised
Ensamblar(data, datos_mercado, m, f) ==
    IF m.err # ""
    THEN [out |-> data, err |-> m.err, cache |-> f.cache, called |-> f.called]
    ELSE [out |-> Merge(Merge(data, datos_mercado),
                        [ganancia_total_eur |-> m.ganancia_total_eur,
                         ganancia_total_pct |-> m.ganancia_total_pct,
                         total_invertido |-> m.total_invertido,
                         valor_actual_total |-> m.valor_actual_total]),
          err |-> "", cache |-> f.cache, called |-> f.called]

\* The slip of a fallback that forgets the stored value
DatosFondoMutCero(fondo_data, ret) ==
    IF ret = PyNone
    THEN [valor_actual |-> 0,
          cambio_diario_eur |-> 0,
          cambio_diario_pct |-> 0,
          cambio_ytd_pct |-> 0]
    ELSE ret

\* if not datos_mercado: the defaults
DatosFondo(fondo_data, ret) ==
    IF ret = PyNone
    THEN [valor_actual |-> Get(fondo_data, "valor_actual", 0),
          cambio_diario_eur |-> 0,
          cambio_diario_pct |-> 0,
          cambio_ytd_pct |-> 0]
    ELSE ret

MetricasFondo(fondo_data, datos_mercado, f) ==
    Ensamblar(fondo_data, datos_mercado,
              Derivadas(Get(fondo_data, "valor_compra", 0), Get(fondo_data, "cantidad", 0),
                        datos_mercado.valor_actual),
              f)

\* The slip of leaving a position without quote as it was stored
FondoConDatosMutOmite(fondo_data, f) ==
    IF Propaga(f.ret) \/ f.ret = PyNone
    THEN [out |-> fondo_data, err |-> IF Propaga(f.ret) THEN f.ret.exc ELSE "",
          cache |-> f.cache, called |-> f.called]
    ELSE MetricasFondo(fondo_data, DatosFondo(fondo_data, f.ret), f)

\* The call of obtener_datos_mercado is inside the try: what it raised
\* would be caught like the rest
FondoConDatos(fondo_data, f) ==
    IF Propaga(f.ret)
    THEN [out |-> fondo_data, err |-> f.ret.exc, cache |-> f.cache, called |-> f.called]
    ELSE MetricasFondo(fondo_data, DatosFondo(fondo_data, f.ret), f)

calcular_metricas_fondo(fondo_data, c, prov, t) ==
    IF "ticker" \notin DOMAIN fondo_data
    THEN [out |-> fondo_data, err |-> "KeyError", cache |-> c, called |-> FALSE]
    ELSE FondoConDatos(fondo_data,
                       obtener_datos_mercado("fondos", fondo_data.ticker, c, prov, t))

\* The slip of an equity fallback that forgets the stored value
DatosAccionMutCero(accion_data, ret) ==
    IF ret = PyNone
    THEN [valor_actual |-> 0,
          cambio_diario_eur |-> 0,
          cambio_diario_pct |-> 0,
          cambio_ytd_pct |-> 0,
          sector |-> "No disponible"]
    ELSE ret

\* if not datos_mercado: the defaults, with the sector
DatosAccion(accion_data, ret) ==
    IF ret = PyNone
    THEN [valor_actual |-> Get(accion_data, "valor_actual", 0),
          cambio_diario_eur |-> 0,
          cambio_diario_pct |-> 0,
          cambio_ytd_pct |-> 0,
          sector |-> "No disponible"]
    ELSE ret

MetricasAccion(accion_data, datos_mercado, f) ==
    Ensamblar(accion_data, datos_mercado,
              Derivadas(Get(accion_data, "precio_compra", 0),
                        Get(accion_data, "num_acciones", 0),
                        datos_mercado.valor_actual),
              f)

AccionConDatos(accion_data, f) ==
    IF Propaga(f.ret)
    THEN [out |-> accion_data, err |-> f.ret.exc, cache |-> f.cache, called |-> f.called]
    ELSE MetricasAccion(accion_data, DatosAccion(accion_data, f.ret), f)

calcular_metricas_accion(accion_data, c, prov, t) ==
    IF "ticker" \notin DOMAIN accion_data
    THEN [out |-> accion_data, err |-> "KeyError", cache |-> c, called |-> FALSE]
    ELSE AccionConDatos(accion_data,
                        obtener_datos_mercado("acciones", accion_data.ticker, c, prov, t))

calcular_metricas(kind, data, c, prov, t) ==
    IF kind = "fondos" THEN calcular_metricas_fondo(data, c, prov, t)
    ELSE calcular_metricas_accion(data, c, prov, t)

-----------------------------------------------------------------------------
(* Portfolio aggregator: the loop of obtener_todos_fondos_con_metricas and   *)
(* obtener_todas_acciones_con_metricas over the list the store returned.     *)

\* The state of the loop: the records appended so far, the exception caught
\* per position, the running sums, the cache, and the tickers for which the
\* provider was asked.
Comienzo(c) ==
    [calculados |-> <<>>, errs |-> <<>>,
     total_invertido |-> 0, valor_actual_total |-> 0, ganancia_total_eur |-> 0,
     cache |-> c, llamadas |-> <<>>]

\* The slips of one iteration: the gain summed from the wrong field, and a
\* record whose computation raised left out of the list
AcumularMutCampo(ac, ticker, r) ==
    [calculados |-> Append(ac.calculados, r.out),
     errs |-> Append(ac.errs, r.err),
     total_invertido |-> ac.total_invertido + Get(r.out, "total_invertido", 0),
     valor_actual_total |-> ac.valor_actual_total + Get(r.out, "valor_actual_total", 0),
     ganancia_total_eur |-> ac.ganancia_total_eur + Get(r.out, "valor_actual_total", 0),
     cache |-> r.cache,
     llamadas |-> IF r.called THEN Append(ac.llamadas, ticker) ELSE ac.llamadas]

AcumularMutOmite(ac, ticker, r) ==
    [calculados |-> IF r.err = "" THEN Append(ac.calculados, r.out) ELSE ac.calculados,
     errs |-> IF r.err = "" THEN Append(ac.errs, r.err) ELSE ac.errs,
     total_invertido |-> ac.total_invertido + Get(r.out, "total_invertido", 0),
     valor_actual_total |-> ac.valor_actual_total + Get(r.out, "valor_actual_total", 0),
     ganancia_total_eur |-> ac.ganancia_total_eur + Get(r.out, "ganancia_total_eur", 0),
     cache |-> r.cache,
     llamadas |-> IF r.called THEN Append(ac.llamadas, ticker) ELSE ac.llamadas]

\* One iteration: r is calcular_metricas_* of the position
Acumular(ac, ticker, r) ==
    [calculados |-> Append(ac.calculados, r.out),
     errs |-> Append(ac.errs, r.err),
     total_invertido |-> ac.total_invertido + Get(r.out, "total_invertido", 0),
     valor_actual_total |-> ac.valor_actual_total + Get(r.out, "valor_actual_total", 0),
     ganancia_total_eur |-> ac.ganancia_total_eur + Get(r.out, "ganancia_total_eur", 0),
     cache |-> r.cache,
     llamadas |-> IF r.called THEN Append(ac.llamadas, ticker) ELSE ac.llamadas]

Paso(kind, data, prov, t, ac) ==
    Acumular(ac, Get(data, "ticker", ""), calcular_metricas(kind, data, ac.cache, prov, t))

\* The slip of dividing the gain by the current value
TotalesMutDivisor(ac) ==
    [total_invertido |-> ac.total_invertido,
     valor_actual_total |-> ac.valor_actual_total,
     ganancia_total_eur |-> ac.ganancia_total_eur,
     ganancia_total_pct |->
         IF ac.valor_actual_total > 0
         THEN RoundRatio(ac.ganancia_total_eur * 10000, ac.valor_actual_total)
         ELSE 0]

\* The sums are sums of cents, which round(x, 2) leaves as they are
Totales(ac) ==
    [total_invertido |-> ac.total_invertido,
     valor_actual_total |-> ac.valor_actual_total,
     ganancia_total_eur |-> ac.ganancia_total_eur,
     ganancia_total_pct |->
         IF ac.total_invertido > 0
         THEN RoundRatio(ac.ganancia_total_eur * 10000, ac.total_invertido)
         ELSE 0]

Salida(ac) ==
    [calculados |-> ac.calculados, totales |-> Totales(ac), errs |-> ac.errs,
     cache |-> ac.cache, llamadas |-> ac.llamadas]

\* [calculados, totales, errs, cache, llamadas]
obtener_todos_con_metricas(kind, lista, c, prov, t) ==
    LET bucle[i \in 0..Len(lista)] ==
            IF i = 0 THEN Comienzo(c) ELSE Paso(kind, lista[i], prov, t, bucle[i - 1])
    IN  Salida(bucle[Len(lista)])

-----------------------------------------------------------------------------
(* crear_dataframe_fondos / crear_dataframe_acciones: the table of the page. *)
(* A DataFrame is the sequence of its rows, a row a mapping from column      *)
(* title to cell; the titles are written without accents and with EUR for    *)
(* the currency sign.                                                         *)

\* <<title, field of the record, default of .get>> of every column, in order
Columnas(kind) ==
    IF kind = "fondos"
    THEN << <<"ID", "id", "">>,
            <<"Nombre del fondo", "nombre", "">>,
            <<"Ticker", "ticker", "">>,
            <<"Tipo de inversion", "tipo_inversion", "">>,
            <<"Valor de compra", "valor_compra", 0>>,
            <<"Cantidad invertida", "cantidad", 0>>,
            <<"Valor actual", "valor_actual", 0>>,
            <<"Cambio diario (EUR)", "cambio_diario_eur", 0>>,
            <<"Cambio diario (%)", "cambio_diario_pct", 0>>,
            <<"Cambio YTD (%)", "cambio_ytd_pct", 0>>,
            <<"Ganancias/perdidas totales (EUR)", "ganancia_total_eur", 0>>,
            <<"Ganancias/perdidas totales (%)", "ganancia_total_pct", 0>>,
            <<"Fecha de compra", "fecha_compra", "">>,
            <<"Total invertido", "total_invertido", 0>>,
            <<"Valor actual total", "valor_actual_total", 0>> >>
    ELSE << <<"ID", "id", "">>,
            <<"Nombre", "nombre", "">>,
            <<"Ticker", "ticker", "">>,
            <<"Sector", "sector", "No disponible">>,
            <<"Precio de compra", "precio_compra", 0>>,
            <<"Numero de acciones", "num_acciones", 0>>,
            <<"Valor actual", "valor_actual", 0>>,
            <<"Cambio diario (EUR)", "cambio_diario_eur", 0>>,
            <<"Cambio diario (%)", "cambio_diario_pct", 0>>,
            <<"Cambio YTD (%)", "cambio_ytd_pct", 0>>,
            <<"Ganancias/perdidas (EUR)", "ganancia_total_eur", 0>>,
            <<"Ganancias/perdidas (%)", "ganancia_total_pct", 0>>,
            <<"Fecha de compra", "fecha_compra", "">>,
            <<"Total invertido", "total_invertido", 0>>,
            <<"Valor actual total", "valor_actual_total", 0>> >>

Titulos(kind) == {Columnas(kind)[j][1] : j \in 1..Len(Columnas(kind))}

\* fila = {...}: one cell per column, from the record or the default
Fila(kind, rec) ==
    [c \in Titulos(kind) |->
        LET col == CHOOSE j \in 1..Len(Columnas(kind)) : Columnas(kind)[j][1] = c
        IN  Get(rec, Columnas(kind)[col][2], Columnas(kind)[col][3])]

\* The slip of filling the totals row from the wrong fields
FilaTotalesMutCruzada(kind, totales) ==
    [c \in Titulos(kind) |->
        CASE c = "ID" -> NaN
          [] c \in {"Nombre del fondo", "Nombre"} -> "**TOTALES**"
          [] c \in {"Ganancias/perdidas totales (EUR)", "Ganancias/perdidas (EUR)"} ->
                 totales.valor_actual_total
          [] c \in {"Ganancias/perdidas totales (%)", "Ganancias/perdidas (%)"} ->
                 totales.ganancia_total_pct
          [] c = "Total invertido" -> totales.total_invertido
          [] c = "Valor actual total" -> totales.ganancia_total_eur
          [] OTHER -> ""]

\* fila_totales = {...} as a row of the concatenated table: the column it has
\* no cell for (ID) is filled with NaN
FilaTotales(kind, totales) ==
    [c \in Titulos(kind) |->
        CASE c = "ID" -> NaN
          [] c \in {"Nombre del fondo", "Nombre"} -> "**TOTALES**"
          [] c \in {"Ganancias/perdidas totales (EUR)", "Ganancias/perdidas (EUR)"} ->
                 totales.ganancia_total_eur
          [] c \in {"Ganancias/perdidas totales (%)", "Ganancias/perdidas (%)"} ->
                 totales.ganancia_total_pct
          [] c = "Total invertido" -> totales.total_invertido
          [] c = "Valor actual total" -> totales.valor_actual_total
          [] OTHER -> ""]

\* The empty DataFrame for an empty list; otherwise one row per record and,
\* the table not being empty, the totals row
crear_dataframe(kind, lista, totales) ==
    IF Len(lista) = 0 THEN <<>>
    ELSE Append([i \in 1..Len(lista) |-> Fila(kind, lista[i])], FilaTotales(kind, totales))

-----------------------------------------------------------------------------
(* Inputs: tickers, provider answers, stored records                         *)

Tickers == {"ABC", "ZZZZ"}

\* regularMarketPrice 110, previous close 108, closes from 90: the worked example
R_abc == Respuesta(TRUE,
                   [longName |-> "ABC Corp", sector |-> "Technology",
                    regularMarketPrice |-> 110000, regularMarketPreviousClose |-> 108000],
                   TRUE, <<90000, 107000, 109500>>)
\* no regularMarketPrice, no previous close: currentPrice and the closes decide
R_45 == Respuesta(TRUE, [longName |-> "Forty Five", currentPrice |-> 45004],
                  TRUE, <<50000, 46000, 45500>>)
\* a later quote of the same instrument
R_120 == Respuesta(TRUE,
                   [longName |-> "ABC Corp", sector |-> "Technology",
                    regularMarketPrice |-> 120336, regularMarketPreviousClose |-> 110000],
                   TRUE, <<90000, 108000, 110000, 120336>>)
\* no price metadata at all and a single close
R_un_cierre == Respuesta(TRUE, [quoteType |-> "MUTUALFUND"], TRUE, <<100006>>)
\* metadata with prices but an empty history
R_vacio == Respuesta(TRUE,
                     [longName |-> "Delisted", regularMarketPrice |-> 7000,
                      regularMarketPreviousClose |-> 7100],
                     TRUE, <<>>)
\* the info lookup raises
R_error == Respuesta(FALSE, [quoteType |-> "NONE"], TRUE, <<>>)
\* the price is null in the metadata
R_precio_none == Respuesta(TRUE, [quoteType |-> "EQUITY", regularMarketPrice |-> NumNone],
                           TRUE, <<90000, 91000>>)
\* the provider reports a previous close of 0
R_cierre_cero == Respuesta(TRUE,
                           [longName |-> "Zero Close", regularMarketPrice |-> 110000,
                            regularMarketPreviousClose |-> 0],
                           TRUE, <<90000, 108000>>)

\* a previous close of 0 in the metadata and no price there: the current
\* price is the last close
R_cierre_cero_np == Respuesta(TRUE,
                              [longName |-> "Zero Close", regularMarketPreviousClose |-> 0],
                              TRUE, <<90000, 108000>>)

\* the first close of the year is 0
R_inicio_cero == Respuesta(TRUE,
                           [longName |-> "Zero Start", regularMarketPrice |-> 110000,
                            regularMarketPreviousClose |-> 108000],
                           TRUE, <<0, 108000>>)
\* no previous close in the metadata and a second-to-last close of 0
R_penultimo_cero == Respuesta(TRUE, [longName |-> "Zero Before", currentPrice |-> 95000],
                              TRUE, <<90000, 0, 95000>>)
\* the history request raises
R_sin_historico == Respuesta(TRUE,
                             [longName |-> "No History", regularMarketPrice |-> 7000,
                              regularMarketPreviousClose |-> 7100],
                             FALSE, <<>>)

\* The markets of the aggregation runs: an answer per ticker
Mercados ==
    { [ABC |-> R_abc, ZZZZ |-> R_45],
      [ABC |-> R_abc, ZZZZ |-> R_vacio],
      [ABC |-> R_un_cierre, ZZZZ |-> R_error],
      [ABC |-> R_cierre_cero, ZZZZ |-> R_precio_none],
      [ABC |-> R_inicio_cero, ZZZZ |-> R_penultimo_cero],
      [ABC |-> R_120, ZZZZ |-> R_sin_historico],
      [ABC |-> R_cierre_cero_np, ZZZZ |-> R_abc] }

\* A stored record without its id; "-" as ticker: the record has no ticker
\* column, va = 0 - 1: it has no valor_actual column.
Registro(kind, ticker, compra, cantidad, va) ==
    LET clase == IF kind = "fondos" THEN [tipo_inversion |-> "RV"] ELSE [sector |-> "Banca"]
        base == Merge([nombre |-> "Mi posicion", fecha_compra |-> "2024-01-15"], clase)
        nums == IF kind = "fondos"
                THEN [valor_compra |-> compra, cantidad |-> cantidad]
                ELSE [precio_compra |-> compra, num_acciones |-> cantidad]
        conT == IF ticker = "-" THEN base ELSE Merge(base, [ticker |-> ticker])
        conV == IF va = 0 - 1 THEN conT ELSE Merge(conT, [valor_actual |-> va])
    IN  Merge(conV, nums)

Compras == {0, 3333, 5000, 10000, NumNone}
Cantidades(kind) == IF kind = "fondos" THEN {0, 50, 333, 1000, NumNone}
                    ELSE {0, 100, 1000, NumNone}
Almacenados == {0 - 1, NumNone, 9500}

Registros(kind) ==
    { Registro(kind, tk, c, q, va) :
        tk \in Tickers \cup {"-"}, c \in Compras, q \in Cantidades(kind), va \in Almacenados }

\* The records the longer lists are made of
Cartera(kind) ==
    { Registro(kind, "ABC", 10000, 1000, 0 - 1),
      Registro(kind, "ZZZZ", 5000, 1000, 9500),
      Registro(kind, "ABC", 0, 1000, 0 - 1),
      Registro(kind, "ZZZZ", 3333, IF kind = "fondos" THEN 50 ELSE 100, NumNone),
      Registro(kind, "-", 5000, 1000, 0 - 1),
      Registro(kind, "ZZZZ", 3333, IF kind = "fondos" THEN 50 ELSE 150, 9551) }

RECURSIVE Listas(_, _)
Listas(S, n) ==
    IF n = 0 THEN {<<>>}
    ELSE LET menos == Listas(S, n - 1)
         IN  menos \cup { Append(l, x) : l \in {m \in menos : Len(m) = n - 1}, x \in S }

\* The store assigns the ids
ConIds(lista) == [i \in 1..Len(lista) |-> Merge(lista[i], [id |-> i])]

Entradas(kind) ==
    { ConIds(l) : l \in Listas(Cartera(kind), MaxPos) \cup { <<r>> : r \in Registros(kind) } }

-----------------------------------------------------------------------------
(* The store (DatabaseManager over the Supabase client).  falla: the client  *)
(* call raises, and the table is left as it was.  Every operation catches    *)
(* what the client raises and returns its failure value.                     *)

\* {}: the empty mapping
DictVacio == <<>>

\* obtener_fondos / obtener_acciones: the rows, [] when the client fails
obtener_posiciones(filas, falla) == IF falla THEN <<>> ELSE filas

\* The rows after update(data).eq("id", data.id)
Actualizadas(filas, data) ==
    [i \in 1..Len(filas) |-> IF filas[i].id = data.id THEN Merge(filas[i], data) ELSE filas[i]]

\* bool(x) of a number or None
Verdadero(x) == x # 0 /\ x # NumNone

\* The slip of inserting whatever id the record carries
guardar_posicionMutInserta(filas, ultimo, data, falla) ==
    IF falla THEN [ret |-> DictVacio, filas |-> filas, serial |-> ultimo]
    ELSE [ret |-> Merge(data, [id |-> ultimo + 1]),
          filas |-> Append(filas, Merge(data, [id |-> ultimo + 1])),
          serial |-> ultimo + 1]

\* guardar_fondo / guardar_accion: update when data carries an id that is
\* neither None nor 0, insert otherwise; returns the first row of the
\* response, {} when there is none or the client fails.  [ret, filas, serial]
guardar_posicion(filas, ultimo, data, falla) ==
    IF falla THEN [ret |-> DictVacio, filas |-> filas, serial |-> ultimo]
    ELSE IF "id" \in DOMAIN data /\ Verdadero(data.id)
    THEN [ret |-> IF \E i \in 1..Len(filas) : filas[i].id = data.id
                  THEN Merge((CHOOSE r \in {filas[i] : i \in 1..Len(filas)} : r.id = data.id), data)
                  ELSE DictVacio,
          filas |-> Actualizadas(filas, data),
          serial |-> ultimo]
    ELSE [ret |-> Merge(data, [id |-> ultimo + 1]),
          filas |-> Append(filas, Merge(data, [id |-> ultimo + 1])),
          serial |-> ultimo + 1]

\* The slip of reporting success whatever happened
eliminar_posicionMutSiempre(filas, id, falla) ==
    IF falla THEN [ret |-> TRUE, filas |-> filas]
    ELSE [ret |-> TRUE, filas |-> SelectSeq(filas, LAMBDA r : r.id # id)]

\* eliminar_fondo / eliminar_accion: True when the client call went through,
\* False when it raised.  [ret, filas]
eliminar_posicion(filas, id, falla) ==
    IF falla THEN [ret |-> FALSE, filas |-> filas]
    ELSE [ret |-> TRUE, filas |-> SelectSeq(filas, LAMBDA r : r.id # id)]

-----------------------------------------------------------------------------
(* State *)

NoRun == [kind |-> "", entrada |-> <<>>, calculados |-> <<>>,
          totales |-> [total_invertido |-> 0, valor_actual_total |-> 0,
                       ganancia_total_eur |-> 0, ganancia_total_pct |-> 0],
          errs |-> <<>>, llamadas |-> <<>>, usadas |-> <<>>, at |-> 0 - 1, tras |-> "",
          rep |-> FALSE, falla |-> FALSE, despues |-> <<>>]

NoFetch == [kind |-> "", ticker |-> "", at |-> 0 - 1, pre |-> NoEntry,
            ret |-> PyNone, called |-> FALSE]

\* wnd: no provider call yet (or none since the cache was cleared)
NoCall == [at |-> 0 - 1, val |-> PyNone, n |-> 0]

\* No provider call since the cache was cleared
SinLlamadas == [k \in Kinds |-> [t \in Tickers |-> NoCall]]

EmptyCache == [k \in Kinds |-> [t \in Tickers |-> NoEntry]]

\* st.cache_data.clear(): every entry of every cached function goes
\* (the slip of leaving the cache as it is)
LimpiarMutNada(c) == c

Limpiar(c) == EmptyCache

\* The browser sessions, each with one script thread
Sesiones == {"s1", "s2"}

\* A session outside obtener_datos_mercado
Ocioso == [pc |-> "ocioso", kind |-> "", ticker |-> "", fallo |-> FALSE,
           ret |-> PyNone, called |-> FALSE, vent |-> 0 - 1, at |-> 0 - 1]

NoSessions == [s \in Sesiones |-> Ocioso]

\* Nobody holds a compute lock
Libres == [k \in Kinds |-> [t \in Tickers |-> ""]]

\* No refresh, save or delete since the page was last rendered.
\*   accion: "refresh", "guardar" or "eliminar"; valido: the form passed its
\*   validation; falla: the store's client call raised; ret: what the store
\*   operation returned; prov: the provider's answers at that moment; viejo:
\*   the cache held a quote of this page that the provider no longer gives;
\*   otros: it held an entry of the other manager.
NoUi == [accion |-> "", kind |-> "", valido |-> FALSE, falla |-> FALSE, ret |-> DictVacio,
         prov |-> <<>>, viejo |-> FALSE, otros |-> FALSE]

\* The cache c holds, unexpired, a quote of kind that the provider no longer gives
Viejo(c, kind) ==
    \E t \in Tickers :
        /\ c[kind][t].at >= 0 /\ now < c[kind][t].at + TTL
        /\ c[kind][t].val # obtener_datos_mercado_fn(kind, t, provider[t])

\* The cache c holds an entry of the other manager
Otros(c, kind) == \E k \in Kinds \ {kind} : \E t \in Tickers : c[k][t] # NoEntry

\* The record of a refresh, save or delete that found the cache as c
Evento(accion, kind, valido, falla, ret, c) ==
    [accion |-> accion, kind |-> kind, valido |-> valido, falla |-> falla, ret |-> ret,
     prov |-> provider, viejo |-> Viejo(c, kind), otros |-> Otros(c, kind)]

\* The browser session before any click.
\*   formulario[k]: st.session_state.mostrar_formulario_fondo / _accion;
\*   a_editar[k]: st.session_state.fondo_a_editar / accion_a_editar (0: not
\*   set); avisos: the st.success / st.error / st.warning calls of the latest
\*   click, in order; pagina: the page function main() ran ("": none);
\*   df: the table crear_dataframe_* returned for the latest aggregation
NoDf == [kind |-> "", filas |-> <<>>]

\*   consulta: the query string of the latest request (pedida: there was
\*   one; presente: it has the key "page"; valor: the text of the key)
NoConsulta == [pedida |-> FALSE, presente |-> FALSE, valor |-> <<>>]

NoPantalla ==
    [formulario |-> [k \in Kinds |-> FALSE], a_editar |-> [k \in Kinds |-> 0],
     avisos |-> <<>>, pagina |-> "", df |-> NoDf, consulta |-> NoConsulta]

\* The screen of a script run that made the calls avisos
Avisar(p, avisos) == [p EXCEPT !.avisos = avisos, !.df = NoDf]

\* The slip of enriching the record in place
ArgumentoMutEnSitio(data, calculados, i) ==
    IF i <= Len(calculados) THEN calculados[i] ELSE data

\* The record handed to calcular_metricas_* as element i of the list, after
\* the call: the function reads it and builds its result as a new mapping
Argumento(data, calculados, i) == data

\* The record of an aggregation: r is obtener_todos_con_metricas of lista
Corrida(kind, lista, r, tras, repite, falla) ==
    [kind |-> kind, entrada |-> lista, calculados |-> r.calculados,
     totales |-> r.totales, errs |-> r.errs, llamadas |-> r.llamadas,
     usadas |-> [i \in 1..Len(lista) |->
                    IF "ticker" \in DOMAIN lista[i]
                    THEN r.cache[kind][lista[i].ticker] ELSE NoEntry],
     at |-> now, tras |-> tras, rep |-> repite, falla |-> falla,
     despues |-> [i \in 1..Len(lista) |-> Argumento(lista[i], r.calculados, i)]]

\* The provider was asked for (k, t) at time t0 and answered val
Llamada(w, k, tk, val, t0) ==
    IF w[k][tk].at >= 0 /\ t0 < w[k][tk].at + TTL
    THEN [w EXCEPT ![k][tk].n = 2]
    ELSE [w EXCEPT ![k][tk] = [at |-> t0, val |-> val, n |-> 1]]

\* The provider calls of one aggregation, in order
Llamadas(w, k, tks, c, t0) ==
    LET f[i \in 0..Len(tks)] ==
            IF i = 0 THEN w ELSE Llamada(f[i - 1], k, tks[i], c[k][tks[i]].val, t0)
    IN  f[Len(tks)]

\* The aggregation of kind about to run repeats the latest one: the same
\* list, and the cache holds, unexpired, the entries that one used
Repite(kind) ==
    /\ run.kind = kind
    /\ run.entrada = tablas[kind]
    /\ \A i \in 1..Len(run.entrada) :
           "ticker" \in DOMAIN run.entrada[i] =>
               /\ cache[kind][run.entrada[i].ticker] = run.usadas[i]
               /\ run.usadas[i].at >= 0
               /\ now < run.usadas[i].at + TTL

Init ==
    /\ \E k \in Kinds : \E l \in Entradas(k) :
           tablas = [j \in Kinds |-> IF j = k THEN l ELSE <<>>]
    /\ provider \in Mercados
    /\ cache = EmptyCache
    /\ now = 0
    /\ run = NoRun
    /\ last = NoFetch
    /\ wnd = [k \in Kinds |-> [t \in Tickers |-> NoCall]]
    /\ ses = NoSessions
    /\ lock = Libres
    /\ ui = NoUi
    /\ serial = [k \in Kinds |-> Len(tablas[k])]
    /\ pantalla = NoPantalla

-----------------------------------------------------------------------------
(* Operations *)

\* obtener_todos_fondos_con_metricas / obtener_todas_acciones_con_metricas:
\* the store's list, then the loop
ObtenerTodos(kind) ==
    \E falla \in BOOLEAN :
        LET lista == obtener_posiciones(tablas[kind], falla)
            r == obtener_todos_con_metricas(kind, lista, cache, provider, now)
        IN  /\ cache' = r.cache
            /\ run' = Corrida(kind, lista, r, "render", Repite(kind) /\ ~falla, falla)
            /\ wnd' = Llamadas(wnd, kind, r.llamadas, r.cache, now)
            /\ last' = NoFetch
            /\ ui' = NoUi
            /\ pantalla' = Avisar(pantalla, <<>>)
            /\ UNCHANGED <<tablas, provider, now, ses, lock, serial>>

ObtenerTodosFondos == ObtenerTodos("fondos")

ObtenerTodasAcciones == ObtenerTodos("acciones")

\* crear_dataframe_fondos / crear_dataframe_acciones of what the aggregation
\* returned
CrearDataframe(kind) ==
    /\ run.kind = kind
    /\ pantalla' = [pantalla EXCEPT !.df = [kind |-> kind,
                        filas |-> crear_dataframe(kind, run.calculados, run.totales)]]
    /\ UNCHANGED <<tablas, provider, cache, now, run, last, wnd, ses, lock, ui, serial>>

CrearDataframeFondos == CrearDataframe("fondos")

CrearDataframeAcciones == CrearDataframe("acciones")

Next ==
    \/ ObtenerTodosFondos
    \/ ObtenerTodasAcciones
    \/ CrearDataframeFondos
    \/ CrearDataframeAcciones

Spec == Init /\ [][Next]_vars

-----------------------------------------------------------------------------
(* The running application: time passes, quotes move, pages are rendered     *)
(* and refreshed.                                                            *)

\* The markets the quotes move between
MercadosVivos ==
    { [ABC |-> R_abc, ZZZZ |-> R_vacio],
      [ABC |-> R_120, ZZZZ |-> R_45] }

\* The stored positions of the running application
CarteraViva(kind) ==
    ConIds(<<Registro(kind, "ABC", 10000, 1000, 0 - 1),
             Registro(kind, "ZZZZ", 5000, 1000, 9500)>>)

InitCache ==
    /\ \E k \in Kinds : tablas = [j \in Kinds |-> IF j = k THEN CarteraViva(k) ELSE <<>>]
    /\ provider = [ABC |-> R_abc, ZZZZ |-> R_vacio]
    /\ cache = EmptyCache
    /\ now = 0
    /\ run = NoRun
    /\ last = NoFetch
    /\ wnd = [k \in Kinds |-> [t \in Tickers |-> NoCall]]
    /\ ses = NoSessions
    /\ lock = Libres
    /\ ui = NoUi
    /\ serial = [k \in Kinds |-> Len(tablas[k])]
    /\ pantalla = NoPantalla

\* The clock advances
Tick ==
    /\ now + TickSeconds <= MaxTicks * TickSeconds
    /\ now' = now + TickSeconds
    /\ UNCHANGED <<tablas, provider, cache, run, last, wnd, ses, lock, ui, serial, pantalla>>

\* The provider's answers change
CambiaMercado ==
    /\ \E m \in MercadosVivos : m # provider /\ provider' = m
    /\ UNCHANGED <<tablas, cache, now, run, last, wnd, ses, lock, ui, serial, pantalla>>

\* One call of obtener_datos_mercado, as calcular_metricas_* makes it for the
\* ticker of a stored position
Observar(kind, ticker, f) ==
    /\ cache' = f.cache
    /\ last' = [kind |-> kind, ticker |-> ticker, at |-> now, pre |-> cache[kind][ticker],
                ret |-> f.ret, called |-> f.called]
    /\ wnd' = IF f.called THEN Llamada(wnd, kind, ticker, f.ret, now) ELSE wnd
    /\ UNCHANGED <<tablas, provider, now, run, ses, lock, ui, serial, pantalla>>

ObtenerDatosMercado ==
    \E kind \in Kinds : \E i \in 1..Len(tablas[kind]) :
        /\ "ticker" \in DOMAIN tablas[kind][i]
        /\ Observar(kind, tablas[kind][i].ticker,
                    obtener_datos_mercado(kind, tablas[kind][i].ticker, cache, provider, now))

\* "Actualizar Datos": st.cache_data.clear(), then st.rerun() renders the page
ActualizarDatos ==
    \E kind \in Kinds : \E falla \in BOOLEAN :
        LET lista == obtener_posiciones(tablas[kind], falla)
            r == obtener_todos_con_metricas(kind, lista, Limpiar(cache), provider, now)
        IN  /\ cache' = r.cache
            /\ run' = Corrida(kind, lista, r, "refresh", FALSE, falla)
            /\ wnd' = Llamadas(SinLlamadas, kind, r.llamadas, r.cache, now)
            /\ last' = NoFetch
            /\ ui' = Evento("refresh", kind, TRUE, FALSE, DictVacio, cache)
            /\ pantalla' = Avisar(pantalla, <<>>)
            /\ UNCHANGED <<tablas, provider, now, ses, lock, serial>>

NextCache ==
    \/ ObtenerTodosFondos
    \/ ObtenerTodasAcciones
    \/ ObtenerDatosMercado
    \/ ActualizarDatos
    \/ Tick
    \/ CambiaMercado

SpecCache == InitCache /\ [][NextCache]_vars

-----------------------------------------------------------------------------
(* The management pages (pagina_fondos, pagina_acciones): positions are      *)
(* added through the form and deleted through the controls under the table.  *)
(* Every click runs the page's script from the top: the form's handler comes *)
(* before the aggregation of the page, the delete handler after it.          *)

\* Largest id the store hands out
MaxId == 2

\* What the user typed into the form: the record without id, or with a
\* purchase price of 0, which the validation rejects
Formularios(kind) ==
    { Registro(kind, "ABC", 10000, 1000, 0 - 1),
      Registro(kind, "ZZZZ", 0, 1000, 0 - 1) }

\* nombre and ticker and valor_compra > 0
FormularioValido(kind, data) ==
    /\ data.nombre # ""
    /\ data.ticker # ""
    /\ (IF kind = "fondos" THEN data.valor_compra ELSE data.precio_compra) > 0

\* One position in each table; abierto: the user has pressed "Anadir" on
\* both pages and the forms are shown
Inicio(abierto) ==
    /\ tablas = [k \in Kinds |-> ConIds(<<Registro(k, "ZZZZ", 5000, 1000, 9500)>>)]
    /\ provider = [ABC |-> R_abc, ZZZZ |-> R_vacio]
    /\ cache = EmptyCache
    /\ now = 0
    /\ run = NoRun
    /\ last = NoFetch
    /\ wnd = SinLlamadas
    /\ ses = NoSessions
    /\ lock = Libres
    /\ ui = NoUi
    /\ serial = [k \in Kinds |-> Len(tablas[k])]
    /\ pantalla = [NoPantalla EXCEPT !.formulario = [k \in Kinds |-> abierto]]

InitApp == Inicio(TRUE)

\* The page of kind is rendered over the rows filas, the cache c and the
\* provider calls w, after the action recorded as ev
Pagina(kind, filas, c, w, tras, ev) ==
    \E falla \in BOOLEAN :
        LET lista == obtener_posiciones(filas, falla)
            r == obtener_todos_con_metricas(kind, lista, c, provider, now)
        IN  /\ cache' = r.cache
            /\ run' = Corrida(kind, lista, r, tras, FALSE, falla)
            /\ wnd' = Llamadas(w, kind, r.llamadas, r.cache, now)
            /\ last' = NoFetch
            /\ ui' = ev

\* What the submit handler does with a valid form: the store is called in a
\* try; when the call raises the error is shown and the script goes on to
\* render the page; when it returns, success is shown, the form hidden,
\* the cache cleared and the script run again
GuardarValido(kind, data, falla) ==
    LET g == guardar_posicion(tablas[kind], serial[kind], data, falla)
        ev == Evento("guardar", kind, TRUE, falla, g.ret, cache)
    IN  /\ tablas' = [tablas EXCEPT ![kind] = g.filas]
        /\ serial' = [serial EXCEPT ![kind] = g.serial]
        /\ IF Propaga(g.ret)
           THEN /\ Pagina(kind, g.filas, cache, wnd, "render", ev)
                /\ pantalla' = Avisar(pantalla, <<"error_guardar">>)
           ELSE /\ Pagina(kind, g.filas, Limpiar(cache), SinLlamadas, "guardar", ev)
                /\ pantalla' = Avisar([pantalla EXCEPT !.formulario[kind] = FALSE],
                                      <<"success_guardar">>)

\* "Guardar Fondo" / "Guardar Accion" in the open form: an invalid form only
\* gets a warning and the page is rendered
Guardar(kind) ==
    /\ pantalla.formulario[kind]
    /\ Len(tablas[kind]) < MaxPos
    /\ serial[kind] < MaxId
    /\ \E data \in Formularios(kind) :
           IF FormularioValido(kind, data)
           THEN \E falla \in BOOLEAN : GuardarValido(kind, data, falla)
           ELSE /\ Pagina(kind, tablas[kind], cache, wnd, "render",
                          Evento("guardar", kind, FALSE, FALSE, DictVacio, cache))
                /\ pantalla' = Avisar(pantalla, <<"warning_campos">>)
                /\ UNCHANGED <<tablas, serial>>
    /\ UNCHANGED <<provider, now, ses, lock>>

GuardarFondo == Guardar("fondos")

GuardarAccion == Guardar("acciones")

\* "Eliminar": the page has been rendered with the rows the store listed, the
\* user's selection is one of them; when the store reports the deletion the
\* cache is cleared and the script run again, otherwise an error is shown
Eliminar(kind) ==
    /\ tablas[kind] # <<>>
    /\ \E i \in 1..Len(tablas[kind]) : \E falla \in BOOLEAN :
           LET antes == obtener_todos_con_metricas(kind, tablas[kind], cache, provider, now)
               e == eliminar_posicion(tablas[kind], tablas[kind][i].id, falla)
               ev == Evento("eliminar", kind, TRUE, falla, e.ret, antes.cache)
           IN  /\ tablas' = [tablas EXCEPT ![kind] = e.filas]
               /\ IF e.ret
                  THEN /\ Pagina(kind, e.filas, Limpiar(antes.cache), SinLlamadas,
                                 "eliminar", ev)
                       /\ pantalla' = Avisar(pantalla, <<"success_eliminar">>)
                  ELSE /\ cache' = antes.cache
                       /\ run' = Corrida(kind, tablas[kind], antes, "render", FALSE, FALSE)
                       /\ wnd' = Llamadas(wnd, kind, antes.llamadas, antes.cache, now)
                       /\ last' = NoFetch
                       /\ ui' = ev
                       /\ pantalla' = Avisar(pantalla, <<"error_eliminar">>)
    /\ UNCHANGED <<provider, now, ses, lock, serial>>

EliminarFondo == Eliminar("fondos")

EliminarAccion == Eliminar("acciones")

\* "Anadir Fondo" / "Anadir Accion": the form is shown and the page rendered
Anadir(kind) ==
    /\ Pagina(kind, tablas[kind], cache, wnd, "render", NoUi)
    /\ pantalla' = Avisar([pantalla EXCEPT !.formulario[kind] = TRUE], <<>>)
    /\ UNCHANGED <<tablas, provider, now, ses, lock, serial>>

AnadirFondo == Anadir("fondos")

AnadirAccion == Anadir("acciones")

\* "Cancelar" in the open form: the form is hidden and the script run again
Cancelar(kind) ==
    /\ pantalla.formulario[kind]
    /\ Pagina(kind, tablas[kind], cache, wnd, "render", NoUi)
    /\ pantalla' = Avisar([pantalla EXCEPT !.formulario[kind] = FALSE], <<>>)
    /\ UNCHANGED <<tablas, provider, now, ses, lock, serial>>

CancelarFondo == Cancelar("fondos")

CancelarAccion == Cancelar("acciones")

\* "Editar": the page has been rendered with the rows the store listed, the
\* user's selection is one of them; its id is noted in the session, the form
\* is shown and the script run again
Editar(kind) ==
    /\ tablas[kind] # <<>>
    /\ \E i \in 1..Len(tablas[kind]) :
           LET antes == obtener_todos_con_metricas(kind, tablas[kind], cache, provider, now)
           IN  /\ Pagina(kind, tablas[kind], antes.cache,
                         Llamadas(wnd, kind, antes.llamadas, antes.cache, now), "editar", NoUi)
               /\ pantalla' = Avisar([pantalla EXCEPT !.formulario[kind] = TRUE,
                                                      !.a_editar[kind] = tablas[kind][i].id],
                                     <<>>)
    /\ UNCHANGED <<tablas, provider, now, ses, lock, serial>>

EditarFondo == Editar("fondos")

EditarAccion == Editar("acciones")

NextApp ==
    \/ ObtenerTodosFondos
    \/ ObtenerTodasAcciones
    \/ ActualizarDatos
    \/ GuardarFondo
    \/ GuardarAccion
    \/ EliminarFondo
    \/ EliminarAccion
    \/ CambiaMercado

SpecApp == InitApp /\ [][NextApp]_vars

\* The form workflow on its own: add, edit, cancel and save while the quotes
\* stay as they are
NextForm ==
    \/ AnadirFondo
    \/ AnadirAccion
    \/ EditarFondo
    \/ EditarAccion
    \/ CancelarFondo
    \/ CancelarAccion
    \/ GuardarFondo
    \/ GuardarAccion

InitForm == Inicio(FALSE)

SpecForm == InitForm /\ [][NextForm]_vars

-----------------------------------------------------------------------------
(* Navigation: main() picks the page function from the URL's query string.  *)
(* A text is the sequence of its characters.  st.query_params maps a key to  *)
(* the text of its value, so .get("page", ["fondos"]) is that text when the  *)
(* key is there and the list ["fondos"] when it is not.                      *)

T_fondos == <<"f", "o", "n", "d", "o", "s">>
T_acciones == <<"a", "c", "c", "i", "o", "n", "e", "s">>
T_graficas == <<"g", "r", "a", "f", "i", "c", "a", "s", "_">>
T_graficas_fondos == T_graficas \o T_fondos
T_graficas_acciones == T_graficas \o T_acciones
T_resumen == <<"r", "e", "s", "u", "m", "e", "n">>

\* The query strings of the requests: no page key, each page, an unknown
\* page, an empty value
Consultas ==
    {[pedida |-> TRUE, presente |-> FALSE, valor |-> <<>>]}
    \cup {[pedida |-> TRUE, presente |-> TRUE, valor |-> v] :
             v \in {T_fondos, T_acciones, T_graficas_fondos, T_graficas_acciones,
                    T_resumen, <<>>}}

\* query_params.get("page", ["fondos"])
QueryGet(q) ==
    IF q.presente THEN [lista |-> FALSE, valor |-> q.valor]
    ELSE [lista |-> TRUE, valor |-> <<T_fondos>>]

\* x[0]: the first element of a list, the first character of a text,
\* IndexError when there is none.  [py |-> "valor", v] or the exception
Primero(x) ==
    IF Len(x.valor) = 0 THEN [py |-> "raise", exc |-> "IndexError"]
    ELSE IF x.lista THEN [py |-> "valor", v |-> x.valor[1]]
    ELSE [py |-> "valor", v |-> <<x.valor[1]>>]

\* The if / elif chain of main(): the page function and the table it reads
Despachar(pagina) ==
    IF pagina = T_fondos THEN [pagina |-> "pagina_fondos", kind |-> "fondos"]
    ELSE IF pagina = T_acciones THEN [pagina |-> "pagina_acciones", kind |-> "acciones"]
    ELSE IF pagina = T_graficas_fondos
    THEN [pagina |-> "pagina_graficas_fondos", kind |-> "fondos"]
    ELSE IF pagina = T_graficas_acciones
    THEN [pagina |-> "pagina_graficas_acciones", kind |-> "acciones"]
    ELSE [pagina |-> "pagina_fondos", kind |-> "fondos"]

\* One request: main() from the query string to the page's aggregation; an
\* exception ends the run before any page function
Main ==
    \E q \in Consultas :
        LET pagina == Primero(QueryGet(q))
        IN  /\ IF Propaga(pagina)
               THEN /\ pantalla' = [Avisar(pantalla, <<>>) EXCEPT !.pagina = "",
                                                                  !.consulta = q]
                    /\ ui' = NoUi
                    /\ UNCHANGED <<cache, run, wnd, last>>
               ELSE /\ Pagina(Despachar(pagina.v).kind, tablas[Despachar(pagina.v).kind],
                              cache, wnd, "render", NoUi)
                    /\ pantalla' = [Avisar(pantalla, <<>>) EXCEPT
                                        !.pagina = Despachar(pagina.v).pagina,
                                        !.consulta = q]
            /\ UNCHANGED <<tablas, provider, now, ses, lock, serial>>

NextNav ==
    \/ Main
    \/ Tick
    \/ CambiaMercado

SpecNav == InitForm /\ [][NextNav]_vars

-----------------------------------------------------------------------------
(* The store's operations called one after another, as the pages and any     *)
(* other caller of DatabaseManager may call them.                            *)

\* The records handed to guardar_*: new values, without id, with id None or
\* with an id the store has handed out
DatosGuardar(kind) ==
    { Registro(kind, "ABC", 7000, 500, 0 - 1),
      Merge(Registro(kind, "ABC", 7000, 500, 0 - 1), [id |-> NumNone]) }
    \cup { Merge(Registro(kind, "ABC", 7000, 500, 0 - 1), [id |-> i]) : i \in 1..MaxId }

\* The record of a call of a store operation on the rows antes
Llamado(accion, kind, data, falla, ret) ==
    [accion |-> accion, kind |-> kind, data |-> data, antes |-> tablas[kind],
     falla |-> falla, ret |-> ret]

GuardarRegistro(kind) ==
    \E data \in DatosGuardar(kind) : \E falla \in BOOLEAN :
        LET g == guardar_posicion(tablas[kind], serial[kind], data, falla)
        IN  /\ g.serial <= MaxId
            /\ Len(g.filas) <= MaxPos
            /\ tablas' = [tablas EXCEPT ![kind] = g.filas]
            /\ serial' = [serial EXCEPT ![kind] = g.serial]
            /\ ui' = Llamado("guardar_posicion", kind, data, falla, g.ret)
            /\ UNCHANGED <<provider, cache, now, run, last, wnd, ses, lock, pantalla>>

GuardarFondoRegistro == GuardarRegistro("fondos")

GuardarAccionRegistro == GuardarRegistro("acciones")

EliminarRegistro(kind) ==
    \E id \in 1..MaxId : \E falla \in BOOLEAN :
        LET e == eliminar_posicion(tablas[kind], id, falla)
        IN  /\ tablas' = [tablas EXCEPT ![kind] = e.filas]
            /\ ui' = Llamado("eliminar_posicion", kind, [id |-> id], falla, e.ret)
            /\ UNCHANGED <<provider, cache, now, run, last, wnd, ses, lock, serial, pantalla>>

EliminarFondoRegistro == EliminarRegistro("fondos")

EliminarAccionRegistro == EliminarRegistro("acciones")

NextStore ==
    \/ GuardarFondoRegistro
    \/ GuardarAccionRegistro
    \/ EliminarFondoRegistro
    \/ EliminarAccionRegistro

SpecStore == InitForm /\ [][NextStore]_vars

-----------------------------------------------------------------------------
(* Sessions in parallel: every session runs its script in a thread of its    *)
(* own, and the decorated obtener_datos_mercado is a sequence of steps on    *)
(* the shared cache: read; on a miss take the compute lock of the key, read  *)
(* again, and only on a second miss call the function and store its result.  *)

InitConc ==
    /\ \E k \in Kinds : tablas = [j \in Kinds |-> IF j = k THEN CarteraViva(k) ELSE <<>>]
    /\ provider = [ABC |-> R_abc, ZZZZ |-> R_vacio]
    /\ cache = EmptyCache
    /\ now = 0
    /\ run = NoRun
    /\ last = NoFetch
    /\ wnd = [k \in Kinds |-> [t \in Tickers |-> NoCall]]
    /\ ses = NoSessions
    /\ lock = Libres
    /\ ui = NoUi
    /\ serial = [k \in Kinds |-> Len(tablas[k])]
    /\ pantalla = NoPantalla

\* The call returns val to session s
Fin(s, val, called) ==
    [ses[s] EXCEPT !.pc = "fin", !.ret = val, !.called = called, !.at = now,
                   !.vent = IF called THEN now ELSE cache[ses[s].kind][ses[s].ticker].at]

\* The compute lock of a key can be taken
\* (the slip of a cache without it)
LockLibreMutSinLock(l) == TRUE

LockLibre(l) == l = ""

\* The read under the compute lock finds the entry another thread stored
\* (the slip of computing without reading again)
RelecturaMutSinReleer(e, t) == FALSE

Relectura(e, t) == CacheValid(e, t)

\* Session s calls obtener_datos_mercado(ticker): the first read of the cache
Llamar(s) ==
    \E kind \in Kinds : \E i \in 1..Len(tablas[kind]) :
        LET ticker == tablas[kind][i].ticker
            e == cache[kind][ticker]
            c == [ses[s] EXCEPT !.kind = kind, !.ticker = ticker]
        IN  /\ ses[s].pc = "ocioso"
            /\ ses' = [ses EXCEPT ![s] =
                          IF CacheValid(e, now)
                          THEN [c EXCEPT !.pc = "fin", !.ret = e.val, !.at = now, !.vent = e.at]
                          ELSE [c EXCEPT !.pc = "espera", !.fallo = TRUE]]
            /\ UNCHANGED <<tablas, provider, cache, now, run, last, wnd, lock, ui, serial, pantalla>>

\* Session s takes the compute lock of its key and reads the cache again
Adquirir(s) ==
    LET kind == ses[s].kind
        ticker == ses[s].ticker
        e == cache[kind][ticker]
    IN  /\ ses[s].pc = "espera"
        /\ LockLibre(lock[kind][ticker])
        /\ IF Relectura(e, now)
           THEN /\ ses' = [ses EXCEPT ![s] = Fin(s, e.val, FALSE)]
                /\ lock' = lock
           ELSE /\ ses' = [ses EXCEPT ![s].pc = "calcula"]
                /\ lock' = [lock EXCEPT ![kind][ticker] = s]
        /\ UNCHANGED <<tablas, provider, cache, now, run, last, wnd, ui, serial, pantalla>>

\* Session s, holding the lock, runs the function body, stores the result
\* and releases the lock
Calcular(s) ==
    LET kind == ses[s].kind
        ticker == ses[s].ticker
        val == obtener_datos_mercado_fn(kind, ticker, provider[ticker])
    IN  /\ ses[s].pc = "calcula"
        /\ cache' = [cache EXCEPT ![kind][ticker] = CacheStore(val, now)]
        /\ wnd' = Llamada(wnd, kind, ticker, val, now)
        /\ ses' = [ses EXCEPT ![s] = Fin(s, val, TRUE)]
        /\ lock' = [lock EXCEPT ![kind][ticker] = ""]
        /\ UNCHANGED <<tablas, provider, now, run, last, ui, serial, pantalla>>

\* The caller goes on with the value
Retornar(s) ==
    /\ ses[s].pc = "fin"
    /\ ses' = [ses EXCEPT ![s] = Ocioso]
    /\ UNCHANGED <<tablas, provider, cache, now, run, last, wnd, lock, ui, serial, pantalla>>

NextConc ==
    \/ \E s \in Sesiones : Llamar(s)
    \/ \E s \in Sesiones : Adquirir(s)
    \/ \E s \in Sesiones : Calcular(s)
    \/ \E s \in Sesiones : Retornar(s)
    \/ Tick
    \/ CambiaMercado

SpecConc == InitConc /\ [][NextConc]_vars

-----------------------------------------------------------------------------
(* Properties of the metrics calculator and the aggregator, stated on the    *)
(* latest aggregation: run.entrada[i] is the stored position i,              *)
(* run.calculados[i] the record returned for it, run.errs[i] the exception   *)
(* its computation raised.                                                   *)

PrecioDe(kind, rec) ==
    Get(rec, IF kind = "fondos" THEN "valor_compra" ELSE "precio_compra", 0)

CantidadDe(kind, rec) ==
    Get(rec, IF kind = "fondos" THEN "cantidad" ELSE "num_acciones", 0)

\* A position as the data model describes it: a ticker, a numeric price and
\* quantity, and no null in the stored valor_actual
BienFormado(kind, rec) ==
    /\ "ticker" \in DOMAIN rec
    /\ IsNum(PrecioDe(kind, rec))
    /\ IsNum(CantidadDe(kind, rec))
    /\ IsNum(Get(rec, "valor_actual", 0))

Posiciones == 1..Len(run.entrada)

SumaCampo(lista, campo) ==
    LET f[i \in 0..Len(lista)] ==
            IF i = 0 THEN 0 ELSE f[i - 1] + Get(lista[i], campo, 0)
    IN  f[Len(lista)]

\* C1: a position whose purchase price is 0 never raises a division by zero,
\* and, being well formed, is returned with ganancia_total_pct = 0, whatever
\* the quote and the quantity.
C1_PrecioCero ==
    \A i \in Posiciones :
        PrecioDe(run.kind, run.entrada[i]) = 0 =>
            /\ i <= Len(run.errs) /\ run.errs[i] # "ZeroDivisionError"
            /\ BienFormado(run.kind, run.entrada[i]) =>
                   /\ run.errs[i] = ""
                   /\ run.calculados[i].ganancia_total_pct = 0

\* a zero-priced position with a live quote and a non-zero gain
C1_Witness ==
    \E i \in Posiciones :
        /\ PrecioDe(run.kind, run.entrada[i]) = 0
        /\ run.errs[i] = ""
        /\ run.calculados[i].valor_actual = 11000
        /\ run.calculados[i].ganancia_total_eur > 0
        /\ run.calculados[i].ganancia_total_pct = 0

\* C2: the returned ganancia_total_eur is (valor_actual - purchase price) *
\* quantity rounded to 2 decimals, with the valor_actual of the same record.
C2_GananciaEur ==
    \A i \in Posiciones :
        BienFormado(run.kind, run.entrada[i]) =>
            /\ run.errs[i] = ""
            /\ run.calculados[i].ganancia_total_eur =
                   RoundHalfEven((run.calculados[i].valor_actual
                                      - PrecioDe(run.kind, run.entrada[i]))
                                     * CantidadDe(run.kind, run.entrada[i]), 100)

\* a live quote that differs from the stored valor_actual, and a product
\* that needs rounding
C2_Witness ==
    \E i \in Posiciones :
        /\ BienFormado(run.kind, run.entrada[i])
        /\ "valor_actual" \in DOMAIN run.entrada[i]
        /\ run.calculados[i].valor_actual # run.entrada[i].valor_actual
        /\ ((run.calculados[i].valor_actual - PrecioDe(run.kind, run.entrada[i]))
               * CantidadDe(run.kind, run.entrada[i])) % 100 # 0

\* C3: total_invertido is purchase price * quantity and valor_actual_total is
\* valor_actual * quantity, each rounded to 2 decimals.
C3_Totales ==
    \A i \in Posiciones :
        BienFormado(run.kind, run.entrada[i]) =>
            /\ run.errs[i] = ""
            /\ run.calculados[i].total_invertido =
                   RoundHalfEven(PrecioDe(run.kind, run.entrada[i])
                                     * CantidadDe(run.kind, run.entrada[i]), 100)
            /\ run.calculados[i].valor_actual_total =
                   RoundHalfEven(run.calculados[i].valor_actual
                                     * CantidadDe(run.kind, run.entrada[i]), 100)

C3_Witness ==
    \E i \in Posiciones :
        /\ BienFormado(run.kind, run.entrada[i])
        /\ run.calculados[i].total_invertido > 0
        /\ run.calculados[i].valor_actual_total > 0
        /\ run.calculados[i].valor_actual_total # run.calculados[i].total_invertido
        /\ (PrecioDe(run.kind, run.entrada[i]) * CantidadDe(run.kind, run.entrada[i])) % 100 # 0

\* C4: each total of the summary is the sum of that field over the returned
\* records (a record without the field counts 0).
C4_Sumas ==
    /\ run.totales.total_invertido = SumaCampo(run.calculados, "total_invertido")
    /\ run.totales.valor_actual_total = SumaCampo(run.calculados, "valor_actual_total")
    /\ run.totales.ganancia_total_eur = SumaCampo(run.calculados, "ganancia_total_eur")

\* two enriched positions with different non-zero amounts
C4_Witness ==
    /\ Len(run.calculados) = 2
    /\ run.errs = <<"", "">>
    /\ run.calculados[1].ganancia_total_eur > 0
    /\ run.calculados[2].ganancia_total_eur < 0
    /\ run.calculados[1].total_invertido # run.calculados[2].total_invertido

\* C5: the summary's ganancia_total_pct is gain / invested * 100 rounded to 2
\* decimals when the invested total is positive and 0 otherwise; invested
\* 1000 and 500 with gains 100 and -50 give 1500, 50 and 3.33.
C5_Ejemplo ==
    /\ Len(run.calculados) = 2
    /\ run.errs = <<"", "">>
    /\ run.calculados[1].total_invertido = 100000
    /\ run.calculados[2].total_invertido = 50000
    /\ run.calculados[1].ganancia_total_eur = 10000
    /\ run.calculados[2].ganancia_total_eur = 0 - 5000

C5_ResumenPct ==
    /\ run.totales.total_invertido > 0 =>
           run.totales.ganancia_total_pct =
               RoundHalfEven(run.totales.ganancia_total_eur * 10000,
                             run.totales.total_invertido)
    /\ run.totales.total_invertido <= 0 => run.totales.ganancia_total_pct = 0
    /\ C5_Ejemplo =>
           /\ run.totales.total_invertido = 150000
           /\ run.totales.ganancia_total_eur = 5000
           /\ run.totales.ganancia_total_pct = 333

C5_Witness == C5_Ejemplo /\ run.totales.ganancia_total_pct = 333

\* an invested total of 0 with a non-zero gain
C5_WitnessCero ==
    /\ run.kind # ""
    /\ run.totales.total_invertido = 0
    /\ run.totales.ganancia_total_eur > 0
    /\ run.totales.ganancia_total_pct = 0

\* C6: one returned record per stored position, in the store's order, each
\* the calculator's result for that position, whatever raised or failed.
C6_Orden ==
    /\ Len(run.calculados) = Len(run.entrada)
    /\ \A i \in Posiciones :
           /\ i <= Len(run.calculados)
           /\ run.calculados[i].id = run.entrada[i].id
           /\ run.kind # "" =>
                  run.calculados[i] =
                      calcular_metricas(run.kind, run.entrada[i], cache, provider, run.at).out

\* the first position raised, the second had no quote, the list has both
C6_Witness ==
    /\ Len(run.entrada) = 2
    /\ Len(run.calculados) = 2
    /\ run.errs[1] # ""
    /\ run.errs[2] = ""
    /\ run.calculados[2].cambio_diario_pct = 0
    /\ run.llamadas = <<"ZZZZ">>
    /\ cache[run.kind]["ZZZZ"].val = PyNone

TituloDe(kind, campo) ==
    CASE campo = "nombre" -> IF kind = "fondos" THEN "Nombre del fondo" ELSE "Nombre"
      [] campo = "ganancia_total_eur" ->
             IF kind = "fondos" THEN "Ganancias/perdidas totales (EUR)"
             ELSE "Ganancias/perdidas (EUR)"
      [] campo = "ganancia_total_pct" ->
             IF kind = "fondos" THEN "Ganancias/perdidas totales (%)"
             ELSE "Ganancias/perdidas (%)"
      [] campo = "total_invertido" -> "Total invertido"
      [] campo = "valor_actual_total" -> "Valor actual total"
      [] campo = "id" -> "ID"
      [] campo = "ticker" -> "Ticker"

\* C23: crear_dataframe_* returns the empty table for an empty list and, for
\* n >= 1 records, n + 1 rows: the records in the order given, then one row
\* labelled **TOTALES** whose gain, gain percentage, invested and current
\* value cells are the summary's.
C23_Tabla ==
    pantalla.df.kind # "" =>
        LET filas == pantalla.df.filas
            k == pantalla.df.kind
            n == Len(run.calculados)
        IN  IF n = 0 THEN filas = <<>>
            ELSE /\ Len(filas) = n + 1
                 /\ \A i \in 1..n :
                        /\ filas[i][TituloDe(k, "id")] = Get(run.calculados[i], "id", "")
                        /\ filas[i][TituloDe(k, "ticker")] = Get(run.calculados[i], "ticker", "")
                        /\ filas[i][TituloDe(k, "total_invertido")] =
                               Get(run.calculados[i], "total_invertido", 0)
                 /\ filas[n + 1][TituloDe(k, "nombre")] = "**TOTALES**"
                 /\ \A campo \in {"ganancia_total_eur", "ganancia_total_pct",
                                  "total_invertido", "valor_actual_total"} :
                        filas[n + 1][TituloDe(k, campo)] = run.totales[campo]

\* the table of two enriched positions with a gain: three rows
C23_Witness ==
    /\ pantalla.df.kind # ""
    /\ Len(run.calculados) = 2 /\ Len(pantalla.df.filas) = 3
    /\ run.errs = <<"", "">>
    /\ run.totales.ganancia_total_eur > 0
    /\ run.totales.valor_actual_total # run.totales.ganancia_total_eur
    /\ run.calculados[1].ticker # run.calculados[2].ticker

\* the table of no positions: no rows
C23_WitnessVacia ==
    /\ pantalla.df.kind # ""
    /\ run.calculados = <<>> /\ pantalla.df.filas = <<>>

-----------------------------------------------------------------------------
(* Properties of the quote retrieval, stated on the latest aggregation: for  *)
(* a position i with a ticker, provider[ticker] is what the provider         *)
(* answered and run.usadas[i] the cache entry its quote came from.           *)

ConTicker == {i \in Posiciones : "ticker" \in DOMAIN run.entrada[i]}

Resp(i) == provider[run.entrada[i].ticker]

Cotiz(i) == run.usadas[i].val

\* The provider answered with metadata and a non-empty series
Responde(r) == r.info_ok /\ r.hist_ok /\ Len(r.hist) > 0

\* The current price: regularMarketPrice, else currentPrice, else the last close
ActualDe(r) ==
    IF "regularMarketPrice" \in DOMAIN r.info THEN r.info["regularMarketPrice"]
    ELSE IF "currentPrice" \in DOMAIN r.info THEN r.info["currentPrice"]
    ELSE r.hist[Len(r.hist)]

\* The previous close by the stated priority
CierreDe(r) ==
    IF "regularMarketPreviousClose" \in DOMAIN r.info
    THEN r.info["regularMarketPreviousClose"]
    ELSE IF Len(r.hist) > 1 THEN r.hist[Len(r.hist) - 1]
    ELSE ActualDe(r)

\* Both operands of the daily division are Python numbers of the metadata
DivisionPython(r) ==
    /\ "regularMarketPreviousClose" \in DOMAIN r.info
    /\ "regularMarketPrice" \in DOMAIN r.info \/ "currentPrice" \in DOMAIN r.info

\* Something raises inside obtener_datos_mercado: the info lookup, the
\* history request, the arithmetic on a null price, a Python division by 0
Excepcion(r) ==
    \/ ~r.info_ok
    \/ ~r.hist_ok
    \/ /\ Len(r.hist) > 0
       /\ \/ ~IsNum(ActualDe(r))
          \/ ~IsNum(CierreDe(r))
          \/ CierreDe(r) = 0 /\ DivisionPython(r)

\* A price field is missing from the metadata
FaltaCampo(r) ==
    \/ "regularMarketPrice" \notin DOMAIN r.info /\ "currentPrice" \notin DOMAIN r.info
    \/ "regularMarketPreviousClose" \notin DOMAIN r.info

\* C12 as stated: every provider error, a missing price field and a division
\* by zero included, makes obtener_datos_mercado return None.
C12_Original ==
    \A i \in ConTicker :
        (\/ Excepcion(Resp(i))
         \/ Resp(i).info_ok /\ FaltaCampo(Resp(i))
         \/ Responde(Resp(i)) /\ IsNum(CierreDe(Resp(i))) /\ CierreDe(Resp(i)) = 0
         \/ Responde(Resp(i)) /\ Resp(i).hist[1] = 0)
            => Cotiz(i) = PyNone

\* C12, amended: whatever raises inside obtener_datos_mercado (the info
\* lookup, the history request, a null price, a Python division by zero) makes
\* it return None, which is cached; nothing reaches the caller as an
\* exception and the provider is asked at most once for the ticker.
C12_Errores ==
    \A i \in ConTicker :
        Excepcion(Resp(i)) =>
            /\ run.usadas[i].at >= 0
            /\ Cotiz(i) = PyNone
            /\ run.errs[i] \notin {"InfoError", "HistoryError"}
            /\ BienFormado(run.kind, run.entrada[i]) => run.errs[i] = ""
            /\ Cardinality({j \in 1..Len(run.llamadas) :
                                run.llamadas[j] = run.entrada[i].ticker}) <= 1

\* two well-formed positions, one whose quote divides by a Python 0 and one
\* whose price is null: both come out enriched from the fallback
C12_Witness ==
    /\ Len(run.entrada) = 2
    /\ ConTicker = {1, 2}
    /\ Resp(1).info_ok /\ Resp(2).info_ok
    /\ CierreDe(Resp(1)) = 0
    /\ ~IsNum(ActualDe(Resp(2)))
    /\ Cotiz(1) = PyNone /\ Cotiz(2) = PyNone
    /\ run.errs = <<"", "">>
    /\ Len(run.llamadas) = 2

\* the info lookup raised
C12_WitnessInfo ==
    \E i \in ConTicker :
        /\ ~Resp(i).info_ok
        /\ BienFormado(run.kind, run.entrada[i])
        /\ Cotiz(i) = PyNone /\ run.usadas[i].at >= 0
        /\ run.errs[i] = ""

\* C13: an empty series makes the result None, whatever prices the metadata
\* holds.
C13_SerieVacia ==
    \A i \in ConTicker :
        (Resp(i).info_ok /\ Resp(i).hist_ok /\ Len(Resp(i).hist) = 0) =>
            /\ run.usadas[i].at >= 0
            /\ Cotiz(i) = PyNone

\* an empty series with a price and a previous close in the metadata: the
\* record shows the stored value, not the metadata's price
C13_Witness ==
    \E i \in ConTicker :
        /\ Resp(i).info_ok /\ Resp(i).hist_ok /\ Len(Resp(i).hist) = 0
        /\ "regularMarketPrice" \in DOMAIN Resp(i).info
        /\ "regularMarketPreviousClose" \in DOMAIN Resp(i).info
        /\ Cotiz(i) = PyNone
        /\ run.errs[i] = ""
        /\ "valor_actual" \in DOMAIN run.entrada[i]
        /\ run.calculados[i].valor_actual = run.entrada[i].valor_actual
        /\ run.calculados[i].valor_actual # RoundHalfEven(Resp(i).info["regularMarketPrice"], 10)

\* C14: in a snapshot the daily change is taken against the previous close of
\* the stated priority and the year-to-date change against the first close;
\* a single close without a provider previous close gives a daily change of 0.
C14_Prioridad ==
    \A i \in ConTicker :
        Cotiz(i) # PyNone =>
            /\ Cotiz(i).cambio_diario_eur = RoundHalfEven(ActualDe(Resp(i)) - CierreDe(Resp(i)), 10)
            /\ CierreDe(Resp(i)) # 0 =>
                   Cotiz(i).cambio_diario_pct =
                       RoundRatio((ActualDe(Resp(i)) - CierreDe(Resp(i))) * 10000,
                                  CierreDe(Resp(i)))
            /\ Resp(i).hist[1] # 0 =>
                   Cotiz(i).cambio_ytd_pct =
                       RoundRatio((ActualDe(Resp(i)) - Resp(i).hist[1]) * 10000,
                                  Resp(i).hist[1])
            /\ ("regularMarketPreviousClose" \notin DOMAIN Resp(i).info /\ Len(Resp(i).hist) = 1) =>
                   /\ Cotiz(i).cambio_diario_eur = 0
                   /\ Cotiz(i).cambio_diario_pct = 0

\* the provider's previous close differs from the second-to-last close and
\* wins
C14_Witness ==
    \E i \in ConTicker :
        /\ Cotiz(i) # PyNone
        /\ "regularMarketPreviousClose" \in DOMAIN Resp(i).info
        /\ Len(Resp(i).hist) > 1
        /\ Resp(i).info["regularMarketPreviousClose"] # Resp(i).hist[Len(Resp(i).hist) - 1]
        /\ Cotiz(i).cambio_diario_eur =
               RoundHalfEven(ActualDe(Resp(i)) - Resp(i).info["regularMarketPreviousClose"], 10)
        /\ Cotiz(i).cambio_diario_eur #
               RoundHalfEven(ActualDe(Resp(i)) - Resp(i).hist[Len(Resp(i).hist) - 1], 10)

\* no provider previous close: the second-to-last close is used
C14_WitnessPenultimo ==
    \E i \in ConTicker :
        /\ Cotiz(i) # PyNone
        /\ "regularMarketPreviousClose" \notin DOMAIN Resp(i).info
        /\ Len(Resp(i).hist) > 1
        /\ Cotiz(i).cambio_diario_eur < 0

\* a single close and no price in the metadata
C14_WitnessUnico ==
    \E i \in ConTicker :
        /\ Cotiz(i) # PyNone
        /\ "regularMarketPreviousClose" \notin DOMAIN Resp(i).info
        /\ Len(Resp(i).hist) = 1
        /\ Cotiz(i).valor_actual > 0
        /\ Cotiz(i).cambio_diario_pct = 0

\* C17 as stated: with a previous close of 0 the daily percentage is 0, with
\* a first close of 0 the year-to-date percentage is 0, and the snapshot is
\* built without a division by zero.
C17_Guardas ==
    \A i \in ConTicker :
        (Responde(Resp(i)) /\ IsNum(ActualDe(Resp(i))) /\ IsNum(CierreDe(Resp(i)))) =>
            /\ CierreDe(Resp(i)) = 0 =>
                   (Cotiz(i) # PyNone /\ Cotiz(i).cambio_diario_pct = 0)
            /\ Resp(i).hist[1] = 0 =>
                   (Cotiz(i) # PyNone /\ Cotiz(i).cambio_ytd_pct = 0)

\* C18: the worked example (bought at 100, 10 units, quote 110 / 108 / 90)
\* gives 1.85, 22.22, 100.00, 10.00, 1000.00 and 1100.00, and in every
\* snapshot the percentages are the quotients rounded to 2 decimals.
C18_Caso(i) ==
    /\ PrecioDe(run.kind, run.entrada[i]) = 10000
    /\ CantidadDe(run.kind, run.entrada[i]) = 1000
    /\ Responde(Resp(i))
    /\ ActualDe(Resp(i)) = 110000
    /\ CierreDe(Resp(i)) = 108000
    /\ Resp(i).hist[1] = 90000

C18_Ejemplo ==
    /\ \A i \in ConTicker :
           C18_Caso(i) =>
               /\ run.errs[i] = ""
               /\ run.calculados[i].cambio_diario_pct = 185
               /\ run.calculados[i].cambio_ytd_pct = 2222
               /\ run.calculados[i].ganancia_total_eur = 10000
               /\ run.calculados[i].ganancia_total_pct = 1000
               /\ run.calculados[i].total_invertido = 100000
               /\ run.calculados[i].valor_actual_total = 110000
    /\ \A i \in ConTicker :
           (Cotiz(i) # PyNone /\ CierreDe(Resp(i)) # 0 /\ Resp(i).hist[1] # 0) =>
               /\ Cotiz(i).cambio_diario_pct * CierreDe(Resp(i)) * 2
                      - (ActualDe(Resp(i)) - CierreDe(Resp(i))) * 20000
                      \in (0 - CierreDe(Resp(i)))..CierreDe(Resp(i))
               /\ Cotiz(i).cambio_ytd_pct * Resp(i).hist[1] * 2
                      - (ActualDe(Resp(i)) - Resp(i).hist[1]) * 20000
                      \in (0 - Resp(i).hist[1])..Resp(i).hist[1]

\* the example's position, enriched
C18_Witness ==
    \E i \in ConTicker :
        /\ C18_Caso(i)
        /\ run.calculados[i].cambio_diario_pct = 185
        /\ run.calculados[i].valor_actual_total = 110000

\* a negative percentage that rounds away from zero
C18_WitnessRedondeo ==
    \E i \in ConTicker :
        /\ Cotiz(i) # PyNone
        /\ Cotiz(i).cambio_diario_pct = 0 - 217

-----------------------------------------------------------------------------
(* Properties of the degraded results: positions without quote and           *)
(* positions whose computation raised.                                       *)

\* Position i is well formed and its quote is Unavailable
SinCotizacion(i) ==
    /\ i \in ConTicker
    /\ BienFormado(run.kind, run.entrada[i])
    /\ run.usadas[i].at >= 0
    /\ Cotiz(i) = PyNone

\* The fields a snapshot or its substitute adds, and the derived ones
CamposCotizacion ==
    {"nombre", "ticker", "valor_actual", "cambio_diario_eur", "cambio_diario_pct",
     "cambio_ytd_pct"} \cup (IF run.kind = "acciones" THEN {"sector"} ELSE {})

CamposDerivados ==
    {"ganancia_total_eur", "ganancia_total_pct", "total_invertido", "valor_actual_total"}

\* The stored valor_actual, 0 when the record has none
Almacenado(rec) == IF "valor_actual" \in DOMAIN rec THEN rec.valor_actual ELSE 0

\* C15: a position without quote is returned with zero changes, with the
\* stored valor_actual (0 when the record has none) as valor_actual, and with
\* gain and totals derived from that value.
C15_Sustituto ==
    \A i \in Posiciones :
        SinCotizacion(i) =>
            /\ run.errs[i] = ""
            /\ run.calculados[i].cambio_diario_eur = 0
            /\ run.calculados[i].cambio_diario_pct = 0
            /\ run.calculados[i].cambio_ytd_pct = 0
            /\ run.calculados[i].valor_actual = Almacenado(run.entrada[i])
            /\ run.calculados[i].ganancia_total_eur =
                   RoundHalfEven((Almacenado(run.entrada[i]) - PrecioDe(run.kind, run.entrada[i]))
                                     * CantidadDe(run.kind, run.entrada[i]), 100)
            /\ run.calculados[i].valor_actual_total =
                   RoundHalfEven(Almacenado(run.entrada[i])
                                     * CantidadDe(run.kind, run.entrada[i]), 100)
            /\ run.calculados[i].ganancia_total_pct =
                   IF PrecioDe(run.kind, run.entrada[i]) > 0
                   THEN RoundRatio((Almacenado(run.entrada[i])
                                        - PrecioDe(run.kind, run.entrada[i])) * 10000,
                                   PrecioDe(run.kind, run.entrada[i]))
                   ELSE 0

\* a position without quote whose stored value gives a gain
C15_Witness ==
    \E i \in Posiciones :
        /\ SinCotizacion(i)
        /\ "valor_actual" \in DOMAIN run.entrada[i]
        /\ run.calculados[i].valor_actual = 9500
        /\ run.calculados[i].ganancia_total_eur > 0
        /\ run.calculados[i].ganancia_total_pct > 0

\* a position without quote and without stored value
C15_WitnessSinValor ==
    \E i \in Posiciones :
        /\ SinCotizacion(i)
        /\ "valor_actual" \notin DOMAIN run.entrada[i]
        /\ run.calculados[i].valor_actual = 0
        /\ run.calculados[i].ganancia_total_eur < 0

\* What a position contributes to a total of the summary: its amount when
\* its computation did not raise
Aporta(i, importe) == IF run.errs[i] = "" THEN importe ELSE 0

SumaInvertido ==
    LET f[i \in 0..Len(run.entrada)] ==
            IF i = 0 THEN 0
            ELSE f[i - 1] + Aporta(i, RoundHalfEven(PrecioDe(run.kind, run.entrada[i])
                                                       * CantidadDe(run.kind, run.entrada[i]), 100))
    IN  f[Len(run.entrada)]

SumaValor ==
    LET f[i \in 0..Len(run.entrada)] ==
            IF i = 0 THEN 0
            ELSE f[i - 1] + Aporta(i, RoundHalfEven(Get(run.calculados[i], "valor_actual", 0)
                                                       * CantidadDe(run.kind, run.entrada[i]), 100))
    IN  f[Len(run.entrada)]

\* C16: a position without quote counts in the summary with its purchase
\* amount and with its substitute value times its quantity, the other
\* positions are computed as usual, and neither its record nor the summary
\* carries a mark of the failure.
C16_Contribuye ==
    /\ \A i \in Posiciones :
           SinCotizacion(i) =>
               /\ DOMAIN run.calculados[i] =
                      DOMAIN run.entrada[i] \cup CamposCotizacion \cup CamposDerivados
               /\ run.calculados[i].total_invertido =
                      RoundHalfEven(PrecioDe(run.kind, run.entrada[i])
                                        * CantidadDe(run.kind, run.entrada[i]), 100)
               /\ run.calculados[i].valor_actual_total =
                      RoundHalfEven(Almacenado(run.entrada[i])
                                        * CantidadDe(run.kind, run.entrada[i]), 100)
    /\ (\E i \in Posiciones : SinCotizacion(i)) =>
           /\ Len(run.calculados) = Len(run.entrada)
           /\ run.totales.total_invertido = SumaInvertido
           /\ run.totales.valor_actual_total = SumaValor
           /\ DOMAIN run.totales = CamposDerivados
           /\ \A j \in ConTicker :
                  (BienFormado(run.kind, run.entrada[j]) /\ Cotiz(j) # PyNone) =>
                      /\ run.errs[j] = ""
                      /\ run.calculados[j].valor_actual = Cotiz(j).valor_actual

\* a position with quote and one without: both are in the totals
C16_Witness ==
    /\ Len(run.entrada) = 2
    /\ run.errs = <<"", "">>
    /\ Cotiz(1) # PyNone
    /\ SinCotizacion(2)
    /\ run.calculados[1].total_invertido = 100000
    /\ run.calculados[2].total_invertido = 50000
    /\ run.totales.total_invertido = 150000
    /\ run.totales.valor_actual_total = 110000 + 95000

\* The computation for position i raises: no ticker, or a price or quantity
\* that is not a number
MalFormado(i) ==
    \/ "ticker" \notin DOMAIN run.entrada[i]
    \/ ~IsNum(PrecioDe(run.kind, run.entrada[i]))
    \/ ~IsNum(CantidadDe(run.kind, run.entrada[i]))

SumaDe(campo) ==
    LET f[i \in 0..Len(run.calculados)] ==
            IF i = 0 THEN 0
            ELSE f[i - 1] + (IF run.errs[i] = "" THEN run.calculados[i][campo] ELSE 0)
    IN  f[Len(run.calculados)]

\* C19: a position whose computation raised is returned as stored, without
\* derived fields, stays in the list, counts 0 in every total, and the other
\* positions are enriched.
C19_SinEnriquecer ==
    /\ Len(run.calculados) = Len(run.entrada)
    /\ \A i \in Posiciones :
           /\ MalFormado(i) => run.errs[i] # ""
           /\ run.errs[i] # "" =>
                  /\ run.calculados[i] = run.entrada[i]
                  /\ DOMAIN run.calculados[i] \cap CamposDerivados = {}
           /\ BienFormado(run.kind, run.entrada[i]) =>
                  /\ run.errs[i] = ""
                  /\ CamposDerivados \subseteq DOMAIN run.calculados[i]
    /\ run.totales.total_invertido = SumaDe("total_invertido")
    /\ run.totales.valor_actual_total = SumaDe("valor_actual_total")
    /\ run.totales.ganancia_total_eur = SumaDe("ganancia_total_eur")

\* a record without ticker next to a well-formed one
C19_Witness ==
    /\ Len(run.entrada) = 2
    /\ "ticker" \notin DOMAIN run.entrada[1]
    /\ run.errs[1] = "KeyError"
    /\ run.calculados[1] = run.entrada[1]
    /\ run.errs[2] = ""
    /\ run.calculados[2].total_invertido > 0
    /\ run.totales.total_invertido = run.calculados[2].total_invertido

\* a null quantity under a live quote
C19_WitnessNulo ==
    \E i \in ConTicker :
        /\ ~IsNum(CantidadDe(run.kind, run.entrada[i]))
        /\ IsNum(PrecioDe(run.kind, run.entrada[i]))
        /\ Cotiz(i) # PyNone
        /\ run.errs[i] = "TypeError"
        /\ run.calculados[i] = run.entrada[i]

-----------------------------------------------------------------------------
(* Properties of the quote cache, stated on the latest call of               *)
(* obtener_datos_mercado (last) and on the provider calls (wnd): wnd[k][t]   *)
(* holds the time and the answer of the provider call that opened the        *)
(* current window of ticker t, and n, the provider calls made for t within   *)
(* that window; clearing the cache closes every window.                      *)

\* C7: an aggregation that repeats the latest one (the same list, the cache
\* holding unexpired the entries that one used) returns the same records and
\* the same summary.
C7_Idempotente ==
    [][ (/\ run'.tras = "render" /\ run'.kind = run.kind /\ run'.entrada = run.entrada
         /\ Repite(run.kind))
            => (run'.calculados = run.calculados /\ run'.totales = run.totales) ]_vars

\* a repeated aggregation, later than its quotes were fetched, after the
\* provider's answer moved
C7_Witness ==
    /\ run.rep
    /\ Len(run.calculados) = 2
    /\ run.llamadas = <<>>
    /\ run.at > run.usadas[1].at
    /\ run.usadas[1].val # obtener_datos_mercado_fn(run.kind, "ABC", provider["ABC"])
    /\ run.calculados[1].valor_actual = run.usadas[1].val.valor_actual

\* C8: a call within 300 s of the provider call that filled the entry returns
\* that call's snapshot and asks nobody; the first call after the window asks
\* the provider once and opens a new window; no entry is served at age 300 s
\* or more; no ticker has two provider calls within one window.
C8_Ventana ==
    /\ \A k \in Kinds : \A t \in Tickers : wnd[k][t].n <= 1
    /\ last.kind # "" =>
           /\ wnd[last.kind][last.ticker].at >= 0
           /\ wnd[last.kind][last.ticker].at <= last.at
           /\ last.at < wnd[last.kind][last.ticker].at + TTL
           /\ last.ret = wnd[last.kind][last.ticker].val
           /\ (last.pre.at >= 0 /\ last.at < last.pre.at + TTL) =>
                  (~last.called /\ last.ret = last.pre.val)
           /\ (last.pre.at < 0 \/ last.at >= last.pre.at + TTL) =>
                  (last.called /\ wnd[last.kind][last.ticker].at = last.at)

\* a second call later in the window, answered from the cache although the
\* provider would now answer differently
C8_Witness ==
    /\ last.kind # ""
    /\ ~last.called
    /\ last.at > last.pre.at
    /\ last.ret # PyNone
    /\ last.ret # obtener_datos_mercado_fn(last.kind, last.ticker, provider[last.ticker])

\* the first call after the window expired
C8_WitnessExpira ==
    /\ last.kind # ""
    /\ last.pre.at >= 0
    /\ last.at >= last.pre.at + TTL
    /\ last.called
    /\ last.ret # last.pre.val

\* C9: after the provider call of a window answered Unavailable, every call
\* within the window returns Unavailable and asks nobody, whatever the
\* provider would answer by then.
C9_NoneEnCache ==
    (/\ last.kind # ""
     /\ wnd[last.kind][last.ticker].at >= 0
     /\ wnd[last.kind][last.ticker].val = PyNone
     /\ last.at < wnd[last.kind][last.ticker].at + TTL)
        => /\ last.ret = PyNone
           /\ wnd[last.kind][last.ticker].n = 1
           /\ last.at > wnd[last.kind][last.ticker].at => ~last.called

\* Unavailable served from the cache after the provider recovered
C9_Witness ==
    /\ last.kind # ""
    /\ last.ret = PyNone
    /\ ~last.called
    /\ last.at > last.pre.at
    /\ obtener_datos_mercado_fn(last.kind, last.ticker, provider[last.ticker]) # PyNone

-----------------------------------------------------------------------------
(* Properties of concurrent calls: a finished call of session s holds the    *)
(* value it returned (ret), whether it asked the provider (called), the time *)
(* it returned (at) and the provider call its value comes from (vent).       *)

C10_WitnessAcierto ==
    \E s1 \in Sesiones : \E s2 \in Sesiones :
        /\ s1 # s2
        /\ ses[s1].pc = "fin" /\ ses[s2].pc = "fin"
        /\ ses[s1].kind = ses[s2].kind /\ ses[s1].ticker = ses[s2].ticker
        /\ ses[s1].called /\ ~ses[s2].called /\ ~ses[s2].fallo
        /\ ses[s2].at > ses[s1].at

-----------------------------------------------------------------------------
(* Properties of the management pages, stated on the latest click: ui is    *)
(* the refresh, save or delete the user asked for, run the aggregation that *)
(* rendered the page afterwards.                                             *)

\* The click refreshed the data, created a position or deleted one
Limpia ==
    \/ ui.accion = "refresh"
    \/ ui.accion = "guardar" /\ ui.valido /\ ~ui.falla
    \/ ui.accion = "eliminar" /\ ~ui.falla

\* The entry of a quote fetched for the render that followed the click
Fresca(kind, ticker) ==
    [at |-> run.at, val |-> obtener_datos_mercado_fn(kind, ticker, ui.prov[ticker])]

\* The tickers of the positions the page was rendered with
TickersDe(lista) == {lista[i].ticker : i \in {j \in 1..Len(lista) : "ticker" \in DOMAIN lista[j]}}

\* C11: a refresh, and the creation or deletion of a position, empties the
\* whole quote cache, of funds and of equities: the render that follows asks
\* the provider for every ticker of its page, once, shows no quote other than
\* the ones it fetched, and leaves no older entry in the cache.
C11_CacheVaciado ==
    Limpia =>
        /\ run.kind = ui.kind
        /\ run.tras = ui.accion
        /\ \A k \in Kinds : \A t \in Tickers :
               cache[k][t] # NoEntry =>
                   /\ k = ui.kind
                   /\ t \in TickersDe(run.entrada)
                   /\ cache[k][t] = Fresca(k, t)
        /\ \A i \in 1..Len(run.entrada) :
               "ticker" \in DOMAIN run.entrada[i] =>
                   run.usadas[i] = Fresca(run.kind, run.entrada[i].ticker)
        /\ {run.llamadas[j] : j \in 1..Len(run.llamadas)} = TickersDe(run.entrada)
        /\ Len(run.llamadas) = Cardinality(TickersDe(run.entrada))

\* a position was deleted while the cache held a quote of the page that the
\* provider no longer gave and an entry of the other manager; the page was
\* rendered again with the positions left
C11_Witness ==
    /\ ui.accion = "eliminar" /\ ~ui.falla
    /\ ui.viejo /\ ui.otros
    /\ ~run.falla /\ run.entrada # <<>>

\* a position was created while the cache held such entries
C11_WitnessGuardar ==
    /\ ui.accion = "guardar" /\ ui.valido /\ ~ui.falla
    /\ ui.viejo /\ ui.otros
    /\ ~run.falla /\ Len(run.entrada) = 2

\* the data was refreshed while the cache held such entries
C11_WitnessRefresh ==
    /\ ui.accion = "refresh"
    /\ ui.viejo /\ ui.otros
    /\ ~run.falla /\ run.entrada # <<>>

\* C20: no store operation lets a failure of its client through: the list
\* operation then returns the empty list, the save operation the empty
\* mapping and the delete operation False; delete returns True exactly when
\* the client call went through.
C20_SinExcepcion ==
    /\ run.kind # "" =>
           run.entrada = IF run.falla THEN <<>> ELSE tablas[run.kind]
    /\ (ui.accion = "guardar" /\ ui.valido) =>
           IF ui.falla
           THEN DOMAIN ui.ret = {}
           ELSE /\ "id" \in DOMAIN ui.ret
                /\ \E i \in 1..Len(tablas[ui.kind]) : tablas[ui.kind][i] = ui.ret
    /\ ui.accion = "eliminar" =>
           /\ ui.ret \in BOOLEAN
           /\ ui.ret = ~ui.falla
           /\ ui.falla => run.entrada = tablas[ui.kind]

\* the client failed on a delete: the store answered False and the position
\* is still there
C20_Witness ==
    /\ ui.accion = "eliminar" /\ ui.falla
    /\ ui.ret = FALSE
    /\ tablas[ui.kind] # <<>>
    /\ run.entrada = tablas[ui.kind]

\* the client failed on a save: the store answered {} and nothing was added
C20_WitnessGuardar ==
    /\ ui.accion = "guardar" /\ ui.valido /\ ui.falla
    /\ DOMAIN ui.ret = {}
    /\ serial[ui.kind] = 1

\* the client failed on the list: the page was rendered without positions
C20_WitnessLista ==
    /\ run.kind # "" /\ run.falla
    /\ run.entrada = <<>>
    /\ tablas[run.kind] # <<>>

-----------------------------------------------------------------------------
(* Properties of the store's operations, stated on the latest call: ui.antes *)
(* are the rows before it, ui.data the record it was given.                  *)

\* The record carries an id: the key is there and holds a number
LlevaId(data) == "id" \in DOMAIN data /\ data.id # NumNone

\* The ids of the rows
Ids(filas) == {filas[i].id : i \in 1..Len(filas)}

\* The row is the row antes with the values of data
ConValores(fila, antes, data) ==
    /\ DOMAIN fila = DOMAIN antes \cup DOMAIN data
    /\ \A c \in DOMAIN fila : fila[c] = IF c \in DOMAIN data THEN data[c] ELSE antes[c]

\* C21: guardar_fondo / guardar_accion given a record with an id changes
\* the stored record of that id to the record's values, leaves every other
\* record as it was and adds none; given a record without id, or with id
\* None, it adds one record with the record's values under a new id and
\* leaves the existing records as they were.
C21_UpsertPorId ==
    (ui.accion = "guardar_posicion" /\ ~ui.falla) =>
        LET filas == tablas[ui.kind]
        IN  IF LlevaId(ui.data)
            THEN /\ Len(filas) = Len(ui.antes)
                 /\ \A i \in 1..Len(ui.antes) :
                        IF ui.antes[i].id = ui.data.id
                        THEN ConValores(filas[i], ui.antes[i], ui.data)
                        ELSE filas[i] = ui.antes[i]
            ELSE /\ Len(filas) = Len(ui.antes) + 1
                 /\ SubSeq(filas, 1, Len(ui.antes)) = ui.antes
                 /\ filas[Len(filas)].id \notin Ids(ui.antes)
                 /\ \A c \in DOMAIN ui.data \ {"id"} : filas[Len(filas)][c] = ui.data[c]

\* a record with the id of one of two stored records was saved: that record
\* has the new values, the other is as it was
C21_Witness ==
    /\ ui.accion = "guardar_posicion" /\ ~ui.falla
    /\ LlevaId(ui.data)
    /\ Len(ui.antes) = 2
    /\ \E i \in 1..2 : ui.antes[i].id = ui.data.id /\ tablas[ui.kind][i] # ui.antes[i]
    /\ \E i \in 1..2 : ui.antes[i].id # ui.data.id /\ tablas[ui.kind][i] = ui.antes[i]

\* a record with id None was saved and became a second row
C21_WitnessNulo ==
    /\ ui.accion = "guardar_posicion" /\ ~ui.falla
    /\ "id" \in DOMAIN ui.data /\ ui.data.id = NumNone
    /\ Len(ui.antes) = 1 /\ Len(tablas[ui.kind]) = 2

\* a record with an id no row has was saved: nothing changed
C21_WitnessSinFila ==
    /\ ui.accion = "guardar_posicion" /\ ~ui.falla
    /\ LlevaId(ui.data) /\ ui.data.id \notin Ids(ui.antes)
    /\ ui.antes # <<>> /\ tablas[ui.kind] = ui.antes
    /\ DOMAIN ui.ret = {}

-----------------------------------------------------------------------------
(* Properties of the form workflow, stated on the step of the save: run is   *)
(* the render the form was shown with, ui' the save and tablas' the rows     *)
(* after it.                                                                  *)

\* The step saves the form that "Editar" opened for the selected position
GuardaEdicion ==
    /\ run.tras = "editar"
    /\ pantalla.formulario[run.kind]
    /\ pantalla.a_editar[run.kind] # 0
    /\ ui'.accion = "guardar" /\ ui'.kind = run.kind
    /\ ui'.valido /\ ~ui'.falla

\* C24: saving the form after "Editar" leaves the number of stored records
\* as it was and gives the selected record the submitted values.
C24_Edicion ==
    [][GuardaEdicion =>
          /\ Len(tablas'[run.kind]) = Len(tablas[run.kind])
          /\ \E i \in 1..Len(tablas'[run.kind]) :
                 /\ tablas'[run.kind][i].id = pantalla.a_editar[run.kind]
                 /\ \A c \in DOMAIN ui'.ret \ {"id"} :
                        tablas'[run.kind][i][c] = ui'.ret[c]]_vars

\* The messages the latest click showed
Avisos == {pantalla.avisos[j] : j \in 1..Len(pantalla.avisos)}

\* C25: when the store fails on the save of a valid form, the page shows the
\* save error and not the success message and the form stays open; success
\* message, hidden form and cleared cache come only with a record that was
\* stored.
C25_FalloGuardar ==
    (ui.accion = "guardar" /\ ui.valido) =>
        /\ ui.falla =>
               /\ "error_guardar" \in Avisos
               /\ "success_guardar" \notin Avisos
               /\ pantalla.formulario[ui.kind]
               /\ run.tras # "guardar"
        /\ ("success_guardar" \in Avisos \/ run.tras = "guardar") =>
               /\ ~ui.falla
               /\ \E i \in 1..Len(tablas[ui.kind]) : tablas[ui.kind][i] = ui.ret

-----------------------------------------------------------------------------
(* Properties of the navigation, stated on the latest request.               *)

\* The page function the query string names
PaginaPedida(q) ==
    IF ~q.presente THEN "pagina_fondos"
    ELSE CASE q.valor = T_fondos -> "pagina_fondos"
           [] q.valor = T_acciones -> "pagina_acciones"
           [] q.valor = T_graficas_fondos -> "pagina_graficas_fondos"
           [] q.valor = T_graficas_acciones -> "pagina_graficas_acciones"
           [] OTHER -> "pagina_fondos"

\* C27 as stated: when the provider reports a previous close of 0 and the
\* series is not empty, obtener_datos_mercado returns None, and the enriched
\* record of a well-formed position shows the stored valor_actual (0 when
\* there is none) and zero changes.
C27_CierreCero ==
    \A i \in ConTicker :
        (/\ Responde(Resp(i))
         /\ "regularMarketPreviousClose" \in DOMAIN Resp(i).info
         /\ Resp(i).info["regularMarketPreviousClose"] = 0) =>
            /\ Cotiz(i) = PyNone
            /\ BienFormado(run.kind, run.entrada[i]) =>
                   /\ run.calculados[i].valor_actual = Get(run.entrada[i], "valor_actual", 0)
                   /\ run.calculados[i].cambio_diario_eur = 0
                   /\ run.calculados[i].cambio_diario_pct = 0
                   /\ run.calculados[i].cambio_ytd_pct = 0

\* valor_actual_total - total_invertido - ganancia_total_eur of a mapping, in
\* cents
Descuadre(d) == d.valor_actual_total - d.total_invertido - d.ganancia_total_eur

Enriquecidas == {i \in Posiciones : run.errs[i] = ""}

\* C28: in every enriched record valor_actual_total - total_invertido is
\* ganancia_total_eur to within 0.01, and in the summary to within 0.01 per
\* position, with and without a quote.
C28_Cuadre ==
    /\ \A i \in Enriquecidas :
           /\ Descuadre(run.calculados[i]) <= 1
           /\ Descuadre(run.calculados[i]) >= 0 - 1
    /\ Descuadre(run.totales) <= Cardinality(Enriquecidas)
    /\ Descuadre(run.totales) >= 0 - Cardinality(Enriquecidas)

\* two enriched positions, one with a quote and one without, a gain, and a
\* record whose amounts differ by a cent
C28_Witness ==
    /\ Cardinality(Enriquecidas) = 2
    /\ \E i \in Enriquecidas : Cotiz(i) = PyNone
    /\ \E i \in Enriquecidas : Cotiz(i) # PyNone /\ run.calculados[i].ganancia_total_eur > 1
    /\ \E i \in Enriquecidas : Descuadre(run.calculados[i]) # 0
    /\ Descuadre(run.totales) # 0

\* a single position without a quote whose amounts differ by a cent
C28_WitnessSinCotizacion ==
    \E i \in Enriquecidas :
        /\ i \in ConTicker
        /\ Cotiz(i) = PyNone
        /\ Descuadre(run.calculados[i]) # 0

\* The same position as a record of the other kind: the purchase price and
\* the quantity under the other kind's field names, the rest as it is
OtroKind(kind) == IF kind = "fondos" THEN "acciones" ELSE "fondos"

CampoPrecio(kind) == IF kind = "fondos" THEN "valor_compra" ELSE "precio_compra"

CampoCantidad(kind) == IF kind = "fondos" THEN "cantidad" ELSE "num_acciones"

Traducido(kind, rec) ==
    [c \in {IF x = CampoPrecio(kind) THEN CampoPrecio(OtroKind(kind))
            ELSE IF x = CampoCantidad(kind) THEN CampoCantidad(OtroKind(kind))
            ELSE x : x \in DOMAIN rec} |->
        IF c = CampoPrecio(OtroKind(kind)) THEN rec[CampoPrecio(kind)]
        ELSE IF c = CampoCantidad(OtroKind(kind)) THEN rec[CampoCantidad(kind)]
        ELSE rec[c]]

\* The fields the two calculators are compared on
CamposComparados ==
    {"valor_actual", "cambio_diario_eur", "cambio_diario_pct", "cambio_ytd_pct",
     "ganancia_total_eur", "ganancia_total_pct", "total_invertido", "valor_actual_total"}

MismosCampos(a, b) ==
    \A c \in CamposComparados :
        /\ (c \in DOMAIN a) = (c \in DOMAIN b)
        /\ (c \in DOMAIN a /\ c \in DOMAIN b) => a[c] = b[c]

\* The other kind's aggregation of the same positions, asking the same
\* provider at the same time
Gemela ==
    obtener_todos_con_metricas(OtroKind(run.kind),
                               [i \in 1..Len(run.entrada) |-> Traducido(run.kind, run.entrada[i])],
                               EmptyCache, provider, run.at)

\* C29: the fund pipeline and the equity pipeline give the same valor_actual,
\* changes and derived amounts for positions with the same numbers and the
\* same provider answer, and the same summaries for corresponding lists.
C29_Equivalentes ==
    run.kind \in Kinds =>
        /\ Len(Gemela.calculados) = Len(run.calculados)
        /\ \A i \in Posiciones : MismosCampos(run.calculados[i], Gemela.calculados[i])
        /\ Gemela.totales = run.totales

\* an equity list with a position without a quote that shows its stored
\* value, and one with a quote and a gain
C29_Witness ==
    /\ run.kind = "acciones"
    /\ \E i \in Enriquecidas : Cotiz(i) = PyNone /\ run.calculados[i].valor_actual > 0
    /\ \E i \in Enriquecidas : Cotiz(i) # PyNone /\ run.calculados[i].ganancia_total_eur > 0
    /\ run.totales.ganancia_total_pct # 0

\* the same for a list of funds
C29_WitnessFondos ==
    /\ run.kind = "fondos"
    /\ \E i \in Enriquecidas : Cotiz(i) = PyNone /\ run.calculados[i].valor_actual > 0
    /\ \E i \in Enriquecidas : Cotiz(i) # PyNone /\ run.calculados[i].ganancia_total_eur > 0
    /\ run.totales.ganancia_total_pct # 0

\* The stored fields no quote supplies
CamposPropios(kind) == {"id", CampoPrecio(kind), CampoCantidad(kind), "fecha_compra"}

\* C30: in an enriched record the quote's fields win over the stored ones of
\* the same name: nombre (and sector, for equities) is the provider's with a
\* quote, an equity's sector is 'No disponible' without one, and id, purchase
\* price, quantity and purchase date are the stored ones.
C30_Precedencia ==
    \A i \in Enriquecidas :
        /\ Cotiz(i) # PyNone =>
               /\ run.calculados[i].nombre
                      = Get(Resp(i).info, "longName", run.entrada[i].ticker)
               /\ run.kind = "acciones" =>
                      run.calculados[i].sector = Get(Resp(i).info, "sector", "No disponible")
        /\ (Cotiz(i) = PyNone /\ run.kind = "acciones") =>
               run.calculados[i].sector = "No disponible"
        /\ \A c \in CamposPropios(run.kind) \cap DOMAIN run.entrada[i] :
               /\ c \in DOMAIN run.calculados[i]
               /\ run.calculados[i][c] = run.entrada[i][c]

\* an equity stored with its own name and sector, enriched with the
\* provider's name and sector
C30_Witness ==
    \E i \in Enriquecidas :
        /\ run.kind = "acciones"
        /\ Cotiz(i) # PyNone
        /\ run.entrada[i].nombre = "Mi posicion"
        /\ run.entrada[i].sector = "Banca"
        /\ run.calculados[i].nombre = "ABC Corp"
        /\ run.calculados[i].sector = "Technology"
        /\ run.calculados[i].id = run.entrada[i].id

\* an equity without a quote: the stored sector is replaced, the name is not
C30_WitnessSinCotizacion ==
    \E i \in Enriquecidas :
        /\ run.kind = "acciones"
        /\ Cotiz(i) = PyNone
        /\ run.entrada[i].sector = "Banca"
        /\ run.calculados[i].sector = "No disponible"
        /\ run.calculados[i].nombre = "Mi posicion"

\* a fund with a quote without longName: the name is the ticker
C30_WitnessFondo ==
    \E i \in Enriquecidas :
        /\ run.kind = "fondos"
        /\ Cotiz(i) # PyNone
        /\ "longName" \notin DOMAIN Resp(i).info
        /\ run.calculados[i].nombre = run.entrada[i].ticker

\* C26: main() renders the page the query parameter page names, the funds
\* page when the parameter is missing or names no page, and one page per
\* request.
C26_Navegacion ==
    pantalla.consulta.pedida => pantalla.pagina = PaginaPedida(pantalla.consulta)

=============================================================================
